---- MODULE Spec2Model ----
(***************************************************************************)
(* Model of the TTL cache of the Sky Globe application                     *)
(* (src/src/data/cache_manager.py, class CacheManager) together with the   *)
(* configuration values it is constructed from (src/src/utils/config.py).  *)
(*                                                                         *)
(* Strings that the code takes apart (category labels, cache keys) are     *)
(* sequences of tokens, the separator ":" being a token of its own, so     *)
(* that str.startswith and str.split are computed rather than assumed.     *)
(* The md5 digest of a key string is one opaque token without ":"; digest  *)
(* collisions between different key strings are outside the model.         *)
(* time.time() is the variable now, in whole seconds.                      *)
(*                                                                         *)
(* History kept beside the program's state: last (the most recent call,    *)
(* its arguments and what it returned), written (the value of the most     *)
(* recent set of each call identity, forgotten when an entry written by    *)
(* that identity leaves the store), getCalls and expiredRemoved (calls of  *)
(* get, and entries removed on the expiry paths, since the last            *)
(* clear_all), reconfigured (the categories whose TTL was assigned after   *)
(* construction) and, in every stored entry, the field call: the set call  *)
(* that wrote it.                                                          *)
(***************************************************************************)
EXTENDS Integers, Sequences, FiniteSets, TLC

VARIABLES now, cache, ttl_config, stats, last, written, getCalls, expiredRemoved,
          reconfigured, pc, local, events, sky, api

vars == <<now, cache, ttl_config, stats, last, written, getCalls, expiredRemoved,
          reconfigured, pc, local, events, sky, api>>

\* the state of the callers that are inside an operation of the cache
callerVars == <<pc, local, events>>

-----------------------------------------------------------------------------
(* Bounds of the model *)

\* time.time() never exceeds MaxTime
MaxTime == 61
\* get is called at most MaxGets times between two clear_all
MaxGets == 3
\* set is called at most MaxSets times between two clear_all
MaxSets == 2

\* the amounts by which the clock advances between two calls
TickSteps == {60, 61}

-----------------------------------------------------------------------------
(* Configuration: src/src/utils/config.py *)

DevWeatherTTL == 60
DevCitiesTTL == 300
ProdWeatherTTL == 1800
ProdCitiesTTL == 3600
ConfigDefaultTTL == 300
CitiesTTL == 86400
DefaultTTL == 300

\* Config.ENVIRONMENTS, restricted to the cache_ttl_* keys the cache reads
ENVIRONMENTS ==
    [development |-> [cache_ttl_weather |-> DevWeatherTTL,
                      cache_ttl_cities  |-> DevCitiesTTL],
     production  |-> [cache_ttl_weather |-> ProdWeatherTTL,
                      cache_ttl_cities  |-> ProdCitiesTTL]]

\* Config.get_cache_ttl: self.config.get('cache_ttl_' + cache_type, 300)
get_cache_ttl(environment, cache_type) ==
    CASE cache_type = "weather" -> ENVIRONMENTS[environment].cache_ttl_weather
      [] cache_type = "cities"  -> ENVIRONMENTS[environment].cache_ttl_cities
      [] OTHER                  -> ConfigDefaultTTL

-----------------------------------------------------------------------------
(* Inputs *)

Weather     == <<"weather">>
Forecast    == <<"weather", ":", "forecast">>
SunPosition == <<"sun_position">>
Geocoding   == <<"geocoding">>
Cities      == <<"cities">>
Default     == <<"default">>

\* category labels passed as cache_type
Categories == {Weather, Forecast, SunPosition}

\* payloads
Values == {"v1", "v2"}

\* Call arguments: positional args and named args in the order of the call.
ArgsTokyo  == [args |-> <<"tokyo">>, kwargs |-> <<>>]
ArgsLatLon == [args |-> <<>>, kwargs |-> << <<"lat", "35">>, <<"lon", "139">> >>]
ArgsLonLat == [args |-> <<>>, kwargs |-> << <<"lon", "139">>, <<"lat", "35">> >>]
\* the calls of get, set and delete: a category label with its arguments
Calls ==
    {<<Weather, ArgsTokyo>>, <<Weather, ArgsLatLon>>, <<Weather, ArgsLonLat>>,
     <<Forecast, ArgsTokyo>>, <<SunPosition, ArgsTokyo>>}

\* the calls of set with their payloads: both payloads under weather, one
\* under the other categories
SetCalls ==
    {<<c[1], v, c[2]>> : c \in {x \in Calls : x[1] = Weather}, v \in Values}
        \cup {<<c[1], "v1", c[2]>> : c \in Calls}

\* values a category's TTL may be reconfigured to
TTLChoices == {DevWeatherTTL, DefaultTTL}

None == "None"

-----------------------------------------------------------------------------
(* Key derivation: CacheManager._generate_key *)

\* order of str comparison on the argument names in use
NameRank(n) == CASE n = "lat" -> 1 [] n = "lon" -> 2 [] OTHER -> 3

RECURSIVE InsertSorted(_, _)
InsertSorted(item, s) ==
    IF s = <<>> THEN <<item>>
    ELSE IF NameRank(item[1]) <= NameRank(Head(s)[1])
         THEN <<item>> \o s
         ELSE <<Head(s)>> \o InsertSorted(item, Tail(s))

\* sorted(kwargs.items())
RECURSIVE SortedItems(_)
SortedItems(kwargs) ==
    IF kwargs = <<>> THEN <<>>
    ELSE InsertSorted(Head(kwargs), SortedItems(Tail(kwargs)))

RECURSIVE Flatten(_)
Flatten(items) ==
    IF items = <<>> THEN <<>>
    ELSE <<Head(items)[1], Head(items)[2]>> \o Flatten(Tail(items))

\* json.dumps({'args': args, 'kwargs': items}, sort_keys=True, default=str)
JsonDumps(args, items) == <<"args">> \o args \o <<"kwargs">> \o Flatten(items)

\* the tokens of a string in one piece
RECURSIVE Join(_)
Join(tokens) ==
    IF tokens = <<>> THEN "" ELSE Head(tokens) \o " " \o Join(Tail(tokens))

\* hashlib.md5(key_string.encode()).hexdigest(): one token per key string
Md5Hex(key_string) ==
    CASE key_string = <<"args", "tokyo", "kwargs">> -> "ed51e039"
      [] key_string = <<"args", "kwargs", "lat", "35", "lon", "139">> -> "5b1c7a02"
      [] key_string = <<"args", "kwargs", "lon", "139", "lat", "35">> -> "c3f09d11"
      [] OTHER -> "md5 " \o Join(key_string)

\* mutant: the key is the digest alone, without the category prefix
_generate_key_no_prefix(prefix, args, kwargs) ==
    <<Md5Hex(JsonDumps(args, SortedItems(kwargs)))>>

\* mutant: the named arguments are serialised in call order
_generate_key_unsorted(prefix, args, kwargs) ==
    prefix \o <<":">> \o <<Md5Hex(JsonDumps(args, kwargs))>>

_generate_key(prefix, args, kwargs) ==
    prefix \o <<":">> \o <<Md5Hex(JsonDumps(args, SortedItems(kwargs)))>>

\* key.startswith(prefix)
StartsWith(key, prefix) ==
    /\ Len(key) >= Len(prefix)
    /\ SubSeq(key, 1, Len(prefix)) = prefix

\* key.split(':', 1)[0]
RECURSIVE SplitFirst(_)
SplitFirst(key) ==
    IF key = <<>> \/ Head(key) = ":" THEN <<>>
    ELSE <<Head(key)>> \o SplitFirst(Tail(key))

-----------------------------------------------------------------------------
(* Expiry: CacheManager._is_expired *)

\* self.ttl_config.get(cache_type, self.ttl_config['default'])
TTLOf(config, cache_type) ==
    IF cache_type \in DOMAIN config THEN config[cache_type] ELSE config[Default]

\* mutant: an entry whose age equals the TTL counts as expired
_is_expired_at_ttl(config, time, timestamp, cache_type) ==
    time - timestamp >= TTLOf(config, cache_type)

_is_expired(config, time, timestamp, cache_type) ==
    time - timestamp > TTLOf(config, cache_type)

-----------------------------------------------------------------------------
(* Helpers on the store *)

\* del self.cache[key], for each key of keys
Remove(store, keys) == [k \in (DOMAIN store) \ keys |-> store[k]]

\* mutant: an existing entry is kept (dict.setdefault)
PutIfAbsent(store, key, entry) ==
    [k \in (DOMAIN store) \cup {key} |->
        IF k \in DOMAIN store THEN store[k] ELSE entry]

\* self.cache[key] = (value, time.time())
Put(store, key, entry) ==
    [k \in (DOMAIN store) \cup {key} |-> IF k = key THEN entry ELSE store[k]]

ZeroStats == [hits |-> 0, misses |-> 0, sets |-> 0, evictions |-> 0]

\* self.stats['hits'] += 1
CountHit(s) == [s EXCEPT !.hits = @ + 1]

\* mutant: a miss is not counted
CountNoMiss(s) == s

\* self.stats['misses'] += 1
CountMiss(s) == [s EXCEPT !.misses = @ + 1]

\* mutant: evictions are not counted
CountNoEvictions(s, n) == s

\* mutant: one eviction more than the entries removed is counted
CountEvictionsAndOne(s, n) == [s EXCEPT !.evictions = @ + n + 1]

\* self.stats['evictions'] += n
CountEvictions(s, n) == [s EXCEPT !.evictions = @ + n]

\* the logical identity of a call: category, positional args, named args
CallId(cache_type, a) ==
    <<cache_type, a.args, {a.kwargs[i] : i \in 1..Len(a.kwargs)}>>

CallIds == {CallId(c[1], c[2]) : c \in Calls}

Call(op, cache_type, a, value, key, retval, retbool, retcount, age) ==
    [op |-> op, cache_type |-> cache_type, args |-> a.args, kwargs |-> a.kwargs,
     value |-> value, key |-> key,
     retval |-> retval, retbool |-> retbool, retcount |-> retcount, age |-> age]

NoArgs == [args |-> <<>>, kwargs |-> <<>>]

\* a stored entry: the tuple (data, timestamp), and the set call that wrote it
Entry(value, time, cache_type, a) ==
    [data |-> value, timestamp |-> time,
     call |-> [cache_type |-> cache_type, args |-> a.args, kwargs |-> a.kwargs]]

-----------------------------------------------------------------------------
(* Callers of the shared instance: get_cache_manager *)

\* the threads that hold the singleton returned by get_cache_manager()
Callers == {1, 2}

\* each caller issues at most MaxCalls operations
MaxCalls == 2

\* the frame of a caller: the operation in progress with its arguments, its
\* local variables (key, the tuples read, keys_to_delete / expired_keys, count),
\* the counter being incremented with the value read, what it returned or the
\* exception that ended it, and the number of operations it has issued
IdleLocal ==
    [op |-> "none", cache_type |-> <<>>, value |-> None, key |-> <<>>,
     entry |-> {}, keys |-> {}, seen |-> {}, count |-> 0,
     counter |-> "none", amount |-> 0, tmp |-> 0, dict |-> 0, after |-> "return",
     ret |-> None, error |-> None, calls |-> 0, a |-> NoArgs]

\* what has happened since the stats dict was last replaced: the hits, misses,
\* sets and evictions that occurred; dicts counts the replacements and so names
\* the dict object that self.stats currently refers to
ZeroEvents == [hits |-> 0, misses |-> 0, sets |-> 0, evictions |-> 0, dicts |-> 0]

\* no astronomy call has been made
NoSky == [call |-> [op |-> "none"]]

\* APIClient.__init__: the rate limiting and the request statistics
NewAPIClient ==
    [api_key |-> TRUE, last_request_time |-> 0, request_count |-> 0,
     error_count |-> 0]

-----------------------------------------------------------------------------
(* State after construction: CacheManager.__init__ *)

InitialTTL(environment) ==
    (Weather   :> get_cache_ttl(environment, "weather")) @@
    (Geocoding :> get_cache_ttl(environment, "geocoding")) @@
    (Cities    :> CitiesTTL) @@
    (Default   :> DefaultTTL)

Init ==
    /\ now = 0
    /\ cache = <<>>
    /\ \E environment \in DOMAIN ENVIRONMENTS : ttl_config = InitialTTL(environment)
    /\ stats = ZeroStats
    /\ last = Call("init", <<>>, NoArgs, None, <<>>, None, FALSE, 0, -1)
    /\ written = [id \in CallIds |-> None]
    /\ getCalls = 0
    /\ expiredRemoved = 0
    /\ reconfigured = {}
    /\ pc = [c \in Callers |-> "idle"]
    /\ local = [c \in Callers |-> IdleLocal]
    /\ events = ZeroEvents
    /\ sky = NoSky
    /\ api = NewAPIClient

-----------------------------------------------------------------------------
(* Operations *)

\* entries that a step took out of the store
Removed(before, after) == Cardinality((DOMAIN before) \ (DOMAIN after))

\* the call identities whose entry a step took out of the store are forgotten
Forget(before, after) ==
    [id \in CallIds |->
        IF \E k \in (DOMAIN before) \ (DOMAIN after) :
               CallId(before[k].call.cache_type, before[k].call) = id
        THEN None
        ELSE written[id]]

\* CacheManager.get
get(cache_type, a) ==
    LET key == _generate_key(cache_type, a.args, a.kwargs) IN
    /\ getCalls < MaxGets
    /\ getCalls' = getCalls + 1
    /\ IF key \in DOMAIN cache
       THEN LET age == now - cache[key].timestamp IN
            IF ~_is_expired(ttl_config, now, cache[key].timestamp, cache_type)
            THEN /\ stats' = CountHit(stats)
                 /\ cache' = cache
                 /\ last' = Call("get", cache_type, a, None, key,
                                 cache[key].data, FALSE, 0, age)
            ELSE /\ cache' = Remove(cache, {key})
                 /\ stats' = CountMiss(CountEvictions(stats, 1))
                 /\ last' = Call("get", cache_type, a, None, key, None, FALSE, 0, age)
       ELSE /\ stats' = CountMiss(stats)
            /\ cache' = cache
            /\ last' = Call("get", cache_type, a, None, key, None, FALSE, 0, -1)
    /\ expiredRemoved' = expiredRemoved + Removed(cache, cache')
    /\ written' = Forget(cache, cache')
    /\ UNCHANGED <<now, ttl_config, reconfigured>>
    /\ UNCHANGED <<callerVars, sky, api>>

\* CacheManager.set
set(cache_type, value, a) ==
    LET key == _generate_key(cache_type, a.args, a.kwargs) IN
    /\ stats.sets < MaxSets
    /\ cache' = Put(cache, key, Entry(value, now, cache_type, a))
    /\ stats' = [stats EXCEPT !.sets = @ + 1]
    /\ written' = [written EXCEPT ![CallId(cache_type, a)] = value]
    /\ last' = Call("set", cache_type, a, value, key, None, FALSE, 0, -1)
    /\ UNCHANGED <<now, ttl_config, getCalls, expiredRemoved, reconfigured>>
    /\ UNCHANGED <<callerVars, sky, api>>

\* mutant: delete reports success whether or not the entry existed
delete_always_true(cache_type, a) ==
    LET key == _generate_key(cache_type, a.args, a.kwargs) IN
    /\ cache' = Remove(cache, {key})
    /\ last' = Call("delete", cache_type, a, None, key, None, TRUE, 0, -1)
    /\ written' = Forget(cache, cache')
    /\ UNCHANGED <<now, ttl_config, stats, getCalls, expiredRemoved, reconfigured>>
    /\ UNCHANGED <<callerVars, sky, api>>

\* CacheManager.delete
delete(cache_type, a) ==
    LET key == _generate_key(cache_type, a.args, a.kwargs) IN
    /\ IF key \in DOMAIN cache
       THEN /\ cache' = Remove(cache, {key})
            /\ last' = Call("delete", cache_type, a, None, key, None, TRUE, 0, -1)
       ELSE /\ cache' = cache
            /\ last' = Call("delete", cache_type, a, None, key, None, FALSE, 0, -1)
    /\ written' = Forget(cache, cache')
    /\ UNCHANGED <<now, ttl_config, stats, getCalls, expiredRemoved, reconfigured>>
    /\ UNCHANGED <<callerVars, sky, api>>

\* CacheManager.clear_by_type
clear_by_type(cache_type) ==
    LET prefix == cache_type \o <<":">>
        keys_to_delete == {key \in DOMAIN cache : StartsWith(key, prefix)}
    IN
    /\ cache' = Remove(cache, keys_to_delete)
    /\ last' = Call("clear_by_type", cache_type, NoArgs, None, <<>>, None, FALSE,
                    Cardinality(keys_to_delete), -1)
    /\ written' = Forget(cache, cache')
    /\ UNCHANGED <<now, ttl_config, stats, getCalls, expiredRemoved, reconfigured>>
    /\ UNCHANGED <<callerVars, sky, api>>

\* mutant: clear_all empties the store and keeps the counters
clear_all_keep_stats ==
    /\ cache' = <<>>
    /\ getCalls' = 0
    /\ expiredRemoved' = 0
    /\ written' = [id \in CallIds |-> None]
    /\ last' = Call("clear_all", <<>>, NoArgs, None, <<>>, None, FALSE,
                    Cardinality(DOMAIN cache), -1)
    /\ UNCHANGED <<now, ttl_config, stats, reconfigured>>
    /\ UNCHANGED <<callerVars, sky, api>>

\* CacheManager.clear_all
clear_all ==
    /\ cache' = <<>>
    /\ stats' = ZeroStats
    /\ getCalls' = 0
    /\ expiredRemoved' = 0
    /\ written' = [id \in CallIds |-> None]
    /\ last' = Call("clear_all", <<>>, NoArgs, None, <<>>, None, FALSE,
                    Cardinality(DOMAIN cache), -1)
    /\ UNCHANGED <<now, ttl_config, reconfigured>>
    /\ UNCHANGED <<callerVars, sky, api>>

\* the keys cleanup_expired collects
ExpiredKeys(store, config, time) ==
    {key \in DOMAIN store :
        _is_expired(config, time, store[key].timestamp, SplitFirst(key))}

\* CacheManager.cleanup_expired
cleanup_expired ==
    LET expired_keys == ExpiredKeys(cache, ttl_config, now) IN
    /\ cache' = Remove(cache, expired_keys)
    /\ stats' = CountEvictions(stats, Cardinality(expired_keys))
    /\ expiredRemoved' = expiredRemoved + Removed(cache, cache')
    /\ last' = Call("cleanup_expired", <<>>, NoArgs, None, <<>>, None, FALSE,
                    Cardinality(expired_keys), -1)
    /\ written' = Forget(cache, cache')
    /\ UNCHANGED <<now, ttl_config, getCalls, reconfigured>>
    /\ UNCHANGED <<callerVars, sky, api>>

\* assignment to an item of the public ttl_config mapping
SetTTL(cache_type, ttl) ==
    /\ ttl_config' = [k \in (DOMAIN ttl_config) \cup {cache_type} |->
                         IF k = cache_type THEN ttl ELSE ttl_config[k]]
    /\ ttl_config' # ttl_config
    /\ reconfigured' = reconfigured \cup {cache_type}
    /\ last' = Call("set_ttl", cache_type, NoArgs, None, <<>>, None, FALSE, ttl, -1)
    /\ UNCHANGED <<now, cache, stats, written, getCalls, expiredRemoved>>
    /\ UNCHANGED <<callerVars, sky, api>>

\* time.time() advances between two calls
Tick(d) ==
    /\ now + d <= MaxTime
    /\ now' = now + d
    /\ last' = Call("tick", <<>>, NoArgs, None, <<>>, None, FALSE, d, -1)
    /\ UNCHANGED <<cache, ttl_config, stats, written, getCalls, expiredRemoved,
                   reconfigured>>
    /\ UNCHANGED <<callerVars, sky, api>>

-----------------------------------------------------------------------------
(* Statistics: CacheManager.get_stats *)

\* round(x, 2) of the quotient num/den, in hundredths, ties to even
RoundHundredths(num, den) ==
    LET q == (num * 100) \div den
        r == (num * 100) % den
    IN IF 2 * r > den \/ (2 * r = den /\ q % 2 = 1) THEN q + 1 ELSE q

\* get_stats(); hit_rate_percent is given in hundredths of a percent
get_stats ==
    LET total_requests == stats.hits + stats.misses IN
    [total_entries    |-> Cardinality(DOMAIN cache),
     total_requests   |-> total_requests,
     cache_hits       |-> stats.hits,
     cache_misses     |-> stats.misses,
     hit_rate_percent_x100 |->
        IF total_requests > 0
        THEN RoundHundredths(stats.hits * 100, total_requests)
        ELSE 0,
     cache_sets       |-> stats.sets,
     evictions        |-> stats.evictions,
     ttl_config       |-> ttl_config]

-----------------------------------------------------------------------------
(* Specifications *)

Next ==
    \/ \E c \in Calls : get(c[1], c[2])
    \/ \E c \in SetCalls : set(c[1], c[2], c[3])
    \/ \E c \in Calls : delete(c[1], c[2])
    \/ \E c \in Categories : clear_by_type(c)
    \/ clear_all
    \/ cleanup_expired
    \/ \E d \in TickSteps : Tick(d)

Spec == Init /\ [][Next]_vars

\* the calls and categories of the specification with TTL reconfiguration
TTLCalls == {<<Weather, ArgsTokyo>>, <<Forecast, ArgsTokyo>>}
TTLCategories == {Weather, Forecast}

NextTTL ==
    \/ \E c \in TTLCalls : get(c[1], c[2])
    \/ \E c \in TTLCalls : set(c[1], "v1", c[2])
    \/ \E c \in TTLCalls : delete(c[1], c[2])
    \/ \E c \in TTLCategories : clear_by_type(c)
    \/ clear_all
    \/ cleanup_expired
    \/ \E c \in TTLCategories, t \in TTLChoices : SetTTL(c, t)
    \/ \E d \in TickSteps : Tick(d)

SpecTTL == Init /\ [][NextTTL]_vars

-----------------------------------------------------------------------------
(* Concurrent callers: the operations of CacheManager statement by statement.   *)
(* The class takes no lock; a step is one statement's access to self.cache or   *)
(* self.stats, and the label of a step is the line of that statement.           *)
(* self.stats[x] += n is two steps: the read of the item and the write of the   *)
(* sum into the dict object that was read from.                                 *)

\* what the concurrent steps leave alone
callerFrame == <<now, ttl_config, last, written, getCalls, expiredRemoved,
                 reconfigured, sky, api>>

Goto(c, label) == pc' = [pc EXCEPT ![c] = label]

\* the operation returns
Return(c, frame, ret) ==
    /\ local' = [local EXCEPT ![c] = [frame EXCEPT !.ret = ret]]
    /\ Goto(c, "idle")

\* the operation ends with an exception
Raise(c, error) ==
    /\ local' = [local EXCEPT ![c].error = error]
    /\ Goto(c, "idle")

\* control reaches self.stats[counter] += amount; after names what follows it
StartIncrement(c, frame, counter, amount, after) ==
    /\ local' = [local EXCEPT ![c] =
                    [frame EXCEPT !.counter = counter, !.amount = amount,
                                  !.after = after]]
    /\ Goto(c, "stats_read")

\* the operations a caller may issue, with their first statement
Operations ==
    {[op |-> "get", cache_type |-> Weather, a |-> ArgsTokyo, value |-> None,
      first |-> "get_95"],
     [op |-> "set", cache_type |-> Weather, a |-> ArgsTokyo, value |-> "v1",
      first |-> "set_122"],
     [op |-> "delete", cache_type |-> Weather, a |-> ArgsTokyo, value |-> None,
      first |-> "delete_137"],
     [op |-> "clear_by_type", cache_type |-> Weather, a |-> NoArgs, value |-> None,
      first |-> "clear_by_type_157"],
     [op |-> "clear_all", cache_type |-> <<>>, a |-> NoArgs, value |-> None,
      first |-> "clear_all_172"],
     [op |-> "cleanup_expired", cache_type |-> <<>>, a |-> NoArgs, value |-> None,
      first |-> "cleanup_expired_193"]}

\* a caller calls an operation: key = self._generate_key(...)
Enter(c, o) ==
    /\ pc[c] = "idle"
    /\ local[c].calls < MaxCalls
    /\ local' = [local EXCEPT ![c] =
                    [IdleLocal EXCEPT
                        !.op = o.op, !.cache_type = o.cache_type, !.a = o.a,
                        !.value = o.value,
                        !.key = _generate_key(o.cache_type, o.a.args, o.a.kwargs),
                        !.calls = local[c].calls + 1]]
    /\ Goto(c, o.first)
    /\ UNCHANGED <<cache, stats, events, callerFrame>>

\* the read of self.stats[counter]
stats_read(c) ==
    /\ pc[c] = "stats_read"
    /\ local' = [local EXCEPT ![c].tmp = stats[local[c].counter],
                              ![c].dict = events.dicts]
    /\ events' = [events EXCEPT ![local[c].counter] = @ + local[c].amount]
    /\ Goto(c, "stats_write")
    /\ UNCHANGED <<cache, stats, callerFrame>>

\* the write of the sum into the dict that was read; then the next statement
stats_write(c) ==
    /\ pc[c] = "stats_write"
    /\ stats' = IF local[c].dict = events.dicts
                THEN [stats EXCEPT ![local[c].counter] =
                                        local[c].tmp + local[c].amount]
                ELSE stats
    /\ IF local[c].after = "misses"
       THEN StartIncrement(c, local[c], "misses", 1, "return")
       ELSE Return(c, local[c], local[c].ret)
    /\ UNCHANGED <<cache, events, callerFrame>>

\* get, line 95: if key in self.cache
get_95(c) ==
    /\ pc[c] = "get_95"
    /\ IF local[c].key \in DOMAIN cache
       THEN Goto(c, "get_96") /\ local' = local
       ELSE StartIncrement(c, local[c], "misses", 1, "return")
    /\ UNCHANGED <<cache, stats, events, callerFrame>>

\* get, lines 96-98: data, timestamp = self.cache[key]; the expiry test
get_96(c) ==
    LET key == local[c].key IN
    /\ pc[c] = "get_96"
    /\ IF key \notin DOMAIN cache
       THEN Raise(c, "KeyError")
       ELSE IF ~_is_expired(ttl_config, now, cache[key].timestamp,
                            local[c].cache_type)
            THEN StartIncrement(c, [local[c] EXCEPT !.entry = {cache[key]},
                                                    !.ret = cache[key].data],
                                "hits", 1, "return")
            ELSE /\ local' = [local EXCEPT ![c].entry = {cache[key]}]
                 /\ Goto(c, "get_104")
    /\ UNCHANGED <<cache, stats, events, callerFrame>>

\* get, line 104: del self.cache[key]
get_104(c) ==
    /\ pc[c] = "get_104"
    /\ IF local[c].key \notin DOMAIN cache
       THEN Raise(c, "KeyError") /\ cache' = cache
       ELSE /\ cache' = Remove(cache, {local[c].key})
            /\ StartIncrement(c, local[c], "evictions", 1, "misses")
    /\ UNCHANGED <<stats, events, callerFrame>>

\* set, line 122: self.cache[key] = (value, time.time())
set_122(c) ==
    /\ pc[c] = "set_122"
    /\ cache' = Put(cache, local[c].key,
                    Entry(local[c].value, now, local[c].cache_type, local[c].a))
    /\ StartIncrement(c, local[c], "sets", 1, "return")
    /\ UNCHANGED <<stats, events, callerFrame>>

\* delete, line 137: if key in self.cache
delete_137(c) ==
    /\ pc[c] = "delete_137"
    /\ IF local[c].key \in DOMAIN cache
       THEN Goto(c, "delete_138") /\ local' = local
       ELSE Return(c, local[c], FALSE)
    /\ UNCHANGED <<cache, stats, events, callerFrame>>

\* delete, line 138: del self.cache[key]
delete_138(c) ==
    /\ pc[c] = "delete_138"
    /\ IF local[c].key \notin DOMAIN cache
       THEN Raise(c, "KeyError") /\ cache' = cache
       ELSE cache' = Remove(cache, {local[c].key}) /\ Return(c, local[c], TRUE)
    /\ UNCHANGED <<stats, events, callerFrame>>

\* clear_by_type, line 157: the keys that start with the prefix
clear_by_type_157(c) ==
    LET prefix == local[c].cache_type \o <<":">>
        keys_to_delete == {key \in DOMAIN cache : StartsWith(key, prefix)}
    IN
    /\ pc[c] = "clear_by_type_157"
    /\ local' = [local EXCEPT ![c].keys = keys_to_delete,
                              ![c].count = Cardinality(keys_to_delete)]
    /\ Goto(c, "clear_by_type_160")
    /\ UNCHANGED <<cache, stats, events, callerFrame>>

\* clear_by_type, lines 159-163: del self.cache[key] for the next key of the
\* list; return len(keys_to_delete) after the last one
clear_by_type_160(c) ==
    /\ pc[c] = "clear_by_type_160"
    /\ IF local[c].keys = {}
       THEN Return(c, local[c], local[c].count) /\ cache' = cache
       ELSE \E key \in local[c].keys :
               IF key \notin DOMAIN cache
               THEN Raise(c, "KeyError") /\ cache' = cache
               ELSE /\ cache' = Remove(cache, {key})
                    /\ local' = [local EXCEPT ![c].keys = @ \ {key}]
                    /\ pc' = pc
    /\ UNCHANGED <<stats, events, callerFrame>>

\* clear_all, line 172: count = len(self.cache)
clear_all_172(c) ==
    /\ pc[c] = "clear_all_172"
    /\ local' = [local EXCEPT ![c].count = Cardinality(DOMAIN cache)]
    /\ Goto(c, "clear_all_173")
    /\ UNCHANGED <<cache, stats, events, callerFrame>>

\* clear_all, line 173: self.cache.clear()
clear_all_173(c) ==
    /\ pc[c] = "clear_all_173"
    /\ cache' = <<>>
    /\ Goto(c, "clear_all_174")
    /\ UNCHANGED <<local, stats, events, callerFrame>>

\* clear_all, lines 174-181: self.stats = {...}, a new dict; return count
clear_all_174(c) ==
    /\ pc[c] = "clear_all_174"
    /\ stats' = ZeroStats
    /\ events' = [ZeroEvents EXCEPT !.dicts = events.dicts + 1]
    /\ Return(c, local[c], local[c].count)
    /\ UNCHANGED <<cache, callerFrame>>

\* cleanup_expired, line 193: the loop over self.cache.items() begins
cleanup_expired_193(c) ==
    /\ pc[c] = "cleanup_expired_193"
    /\ IF DOMAIN cache = {}
       THEN StartIncrement(c, local[c], "evictions", 0, "return")
       ELSE /\ local' = [local EXCEPT ![c].seen = DOMAIN cache]
            /\ Goto(c, "cleanup_expired_196")
    /\ UNCHANGED <<cache, stats, events, callerFrame>>

\* cleanup_expired, lines 193-196: the loop ends, with RuntimeError if the keys
\* of the dict have changed since it began, with expired_keys otherwise
cleanup_expired_196(c) ==
    LET expired_keys == ExpiredKeys(cache, ttl_config, now) IN
    /\ pc[c] = "cleanup_expired_196"
    /\ IF DOMAIN cache # local[c].seen
       THEN Raise(c, "RuntimeError")
       ELSE /\ local' = [local EXCEPT ![c].keys = expired_keys,
                                      ![c].count = Cardinality(expired_keys),
                                      ![c].ret = Cardinality(expired_keys)]
            /\ Goto(c, "cleanup_expired_199")
    /\ UNCHANGED <<cache, stats, events, callerFrame>>

\* cleanup_expired, lines 198-201: del self.cache[key] for the next expired key;
\* after the last one, self.stats['evictions'] += len(expired_keys)
cleanup_expired_199(c) ==
    /\ pc[c] = "cleanup_expired_199"
    /\ IF local[c].keys = {}
       THEN /\ StartIncrement(c, local[c], "evictions", local[c].count, "return")
            /\ cache' = cache
       ELSE \E key \in local[c].keys :
               IF key \notin DOMAIN cache
               THEN Raise(c, "KeyError") /\ cache' = cache
               ELSE /\ cache' = Remove(cache, {key})
                    /\ local' = [local EXCEPT ![c].keys = @ \ {key}]
                    /\ pc' = pc
    /\ UNCHANGED <<stats, events, callerFrame>>

\* time.time() advances while callers are inside the cache
TickCallers(d) ==
    /\ now + d <= MaxTime
    /\ now' = now + d
    /\ UNCHANGED <<cache, ttl_config, stats, last, written, getCalls,
                   expiredRemoved, reconfigured, callerVars, sky, api>>

NextCallers ==
    \/ \E c \in Callers, o \in Operations : Enter(c, o)
    \/ \E c \in Callers : stats_read(c)
    \/ \E c \in Callers : stats_write(c)
    \/ \E c \in Callers : get_95(c)
    \/ \E c \in Callers : get_96(c)
    \/ \E c \in Callers : get_104(c)
    \/ \E c \in Callers : set_122(c)
    \/ \E c \in Callers : delete_137(c)
    \/ \E c \in Callers : delete_138(c)
    \/ \E c \in Callers : clear_by_type_157(c)
    \/ \E c \in Callers : clear_by_type_160(c)
    \/ \E c \in Callers : clear_all_172(c)
    \/ \E c \in Callers : clear_all_173(c)
    \/ \E c \in Callers : clear_all_174(c)
    \/ \E c \in Callers : cleanup_expired_193(c)
    \/ \E c \in Callers : cleanup_expired_196(c)
    \/ \E c \in Callers : cleanup_expired_199(c)
    \/ \E d \in TickSteps : TickCallers(d)

SpecCallers == Init /\ [][NextCallers]_vars

-----------------------------------------------------------------------------
(* Astronomy: src/src/business/time_service.py, class TimeService.              *)
(*                                                                              *)
(* The code computes in binary floating point; the model computes the same      *)
(* expressions in fixed point within 32-bit integers:                           *)
(*   - a day count (Julian Day) is a pair <<whole, frac>> that stands for       *)
(*     whole + frac / DayDen, exact for the constants of the code,              *)
(*   - an angle is in millidegrees, whether the code holds it in degrees or,    *)
(*     after math.radians, in radians,                                          *)
(*   - a sine, cosine or quotient of them is in millionths,                     *)
(*   - a decimal hour is in units of 1/15000 h (the time in which the hour      *)
(*     angle grows by one millidegree in the code's sunrise formula).           *)
(* math.sin is tabulated at the whole degrees and linear in between, which      *)
(* is exact to 4e-5; rounding errors of the floats (1e-16 relative) are below   *)
(* the resolution of the model.                                                 *)

\* a datetime in UTC
Datetime(year, month, day, hour, minute, second) ==
    [year |-> year, month |-> month, day |-> day,
     hour |-> hour, minute |-> minute, second |-> second]

\* one second is 25 / DayDen of a day and 0.0001 day is 216 / DayDen
DayDen == 2160000

\* whole + frac / DayDen with 0 <= frac < DayDen
Days(whole, frac) == <<whole + (frac \div DayDen), frac % DayDen>>

DaysAdd(x, y) == Days(x[1] + y[1], x[2] + y[2])

DaysSub(x, y) == Days(x[1] - y[1], x[2] - y[2])

\* the decimal constant num / den, times the integer k; den divides DayDen
DaysTimes(num, den, k) ==
    Days((num * k) \div den, ((num * k) % den) * (DayDen \div den))

\* TimeService.calculate_julian_day, for a datetime in UTC
calculate_julian_day(dt) ==
    LET shift == dt.month <= 2
        year  == IF shift THEN dt.year - 1 ELSE dt.year
        month == IF shift THEN dt.month + 12 ELSE dt.month
        a == year \div 100
        b == 2 - a + (a \div 4)
        \* (365.25 * (year + 4716)) + (30.6001 * (month + 1)) + day + b - 1524.5
        jd == DaysSub(DaysAdd(DaysTimes(36525, 100, year + 4716),
                              DaysAdd(DaysTimes(306001, 10000, month + 1),
                                      Days(dt.day + b, 0))),
                      DaysTimes(15245, 10, 1))
    IN \* jd += (hour + minute/60.0 + second/3600.0) / 24.0
       DaysAdd(jd, Days(0, (dt.hour * 3600 + dt.minute * 60 + dt.second) * 25))

-----------------------------------------------------------------------------
(* Fixed-point arithmetic and math.sin, math.asin, math.atan2 *)

\* one, for sines and quotients
Unit == 1000000

\* angles in millidegrees
Deg(d) == d * 1000

\* floor(a * b / Unit), computed without exceeding 32 bits
MulS(a, b) ==
    LET a1 == a \div 1000
        a0 == a % 1000
        b1 == b \div 1000
        b0 == b % 1000
    IN a1 * b1 + ((a1 * b0 + a0 * b1) + (a0 * b0) \div 1000) \div 1000

\* <<floor(a * b / c), (a * b) mod c>> for a, b >= 0 and c > 0, computed without
\* exceeding 32 bits
RECURSIVE MulDivMod(_, _, _)
MulDivMod(a, b, c) ==
    IF b = 0 THEN <<0, 0>>
    ELSE LET h == MulDivMod(a, b \div 2, c)
             add == IF b % 2 = 1 THEN a ELSE 0
             r == 2 * h[2] + (add % c)
         IN <<2 * h[1] + (add \div c) + (r \div c), r % c>>

MulDiv(a, b, c) == MulDivMod(a, b, c)[1]

\* round(x, 2) when no tie occurs: num / den to the nearest integer, ties to even
RoundDiv(num, den) ==
    LET q == num \div den
        r == num % den
    IN IF 2 * r > den \/ (2 * r = den /\ q % 2 = 1) THEN q + 1 ELSE q

\* math.sin of the whole degrees 0..90, in millionths
SinTable ==
    <<
     0, 17452, 34899, 52336, 69756, 87156, 104528, 121869,
     139173, 156434, 173648, 190809, 207912, 224951, 241922, 258819,
     275637, 292372, 309017, 325568, 342020, 358368, 374607, 390731,
     406737, 422618, 438371, 453990, 469472, 484810, 500000, 515038,
     529919, 544639, 559193, 573576, 587785, 601815, 615661, 629320,
     642788, 656059, 669131, 681998, 694658, 707107, 719340, 731354,
     743145, 754710, 766044, 777146, 788011, 798636, 809017, 819152,
     829038, 838671, 848048, 857167, 866025, 874620, 882948, 891007,
     898794, 906308, 913545, 920505, 927184, 933580, 939693, 945519,
     951057, 956305, 961262, 965926, 970296, 974370, 978148, 981627,
     984808, 987688, 990268, 992546, 994522, 996195, 997564, 998630,
     999391, 999848, 1000000 >>

\* math.sin for an angle of the first quadrant
SinQ(angle) ==
    LET d == angle \div 1000
        f == angle % 1000
    IN IF d >= 90 THEN Unit
       ELSE SinTable[d + 1] + ((SinTable[d + 2] - SinTable[d + 1]) * f) \div 1000

\* math.sin(math.radians(angle))
Sin(angle) ==
    LET r == angle % Deg(360) IN
    CASE r <= Deg(90)  -> SinQ(r)
      [] r <= Deg(180) -> SinQ(Deg(180) - r)
      [] r <= Deg(270) -> -SinQ(r - Deg(180))
      [] OTHER         -> -SinQ(Deg(360) - r)

\* math.cos(math.radians(angle))
Cos(angle) == Sin(angle + Deg(90))

\* math.degrees(math.asin(x)) for 0 <= x <= Unit
AsinQ(x) ==
    IF x >= Unit THEN Deg(90)
    ELSE LET d == CHOOSE k \in 0..89 : SinTable[k + 1] <= x /\ x < SinTable[k + 2]
         IN Deg(d) + ((x - SinTable[d + 1]) * 1000)
                        \div (SinTable[d + 2] - SinTable[d + 1])

\* math.degrees(math.asin(x)) for -Unit <= x <= Unit
Asin(x) == IF x >= 0 THEN AsinQ(x) ELSE -AsinQ(-x)

\* math.degrees(math.acos(x)) for -Unit <= x <= Unit
Acos(x) == Deg(90) - Asin(x)

\* a quotient too large for the model; it is only compared with 1 and -1
Huge == 2000 * Unit

\* a / b in millionths, for b # 0; a quotient beyond the range is Huge, and a
\* divisor beyond the range gives 0
Quot(a, b) ==
    LET aa == IF a < 0 THEN -a ELSE a
        ab == IF b < 0 THEN -b ELSE b
        q == IF ab >= Huge THEN 0
             ELSE IF aa \div 2000 >= ab THEN Huge ELSE MulDiv(aa, Unit, ab)
    IN IF (a < 0) = (b < 0) THEN q ELSE -q

\* the angle of the first quadrant whose tangent is ay / ax, for ay, ax >= 0
AtanQ(ay, ax) ==
    LET F(d) == MulS(ay, Cos(Deg(d))) - MulS(ax, Sin(Deg(d)))
        d == CHOOSE k \in 0..89 : F(k) >= 0 /\ F(k + 1) < 0
    IN IF ax = 0 THEN Deg(90)
       ELSE Deg(d) + (F(d) * 1000) \div (F(d) - F(d + 1))

\* math.degrees(math.atan2(y, x))
Atan2(y, x) ==
    LET ay == IF y < 0 THEN -y ELSE y
        ax == IF x < 0 THEN -x ELSE x
        q == IF ay = 0 /\ ax = 0 THEN 0 ELSE AtanQ(ay, ax)
    IN CASE x >= 0 /\ y >= 0 -> q
         [] x < 0 /\ y >= 0  -> Deg(180) - q
         [] x < 0 /\ y < 0   -> q - Deg(180)
         [] OTHER            -> -q

-----------------------------------------------------------------------------
(* Sun: declination and hour angle *)

EARTH_OBLIQUITY == 23440

J2000 == Days(2451545, 0)

\* (constant + rate * n) % 360 for n days, n >= 0. The rate is given twice: its
\* remainder modulo 360 in 1e-8 degree per day, for the whole days of n (whole
\* turns drop out of the remainder), and in full in 1e-6 degree per day, for the
\* fraction of a day.
AngleAfter(constant, rate_e8, rate_e6, n) ==
    (constant + MulDiv(rate_e8, n[1], 100000)
              + (MulDiv(rate_e6, n[2], DayDen) \div 1000)) % Deg(360)

\* TimeService.calculate_solar_declination
calculate_solar_declination(julian_day) ==
    LET n == DaysSub(julian_day, J2000)
        \* L = (280.460 + 0.9856474 * n) % 360
        L == AngleAfter(280460, 98564740, 985647, n)
        \* g = math.radians((357.528 + 0.9856003 * n) % 360)
        g == AngleAfter(357528, 98560030, 985600, n)
        \* math.radians(L + 1.915 * math.sin(g) + 0.020 * math.sin(2 * g))
        lambda_sun == L + MulS(1915, Sin(g)) + MulS(20, Sin(2 * g))
    IN Asin(MulS(Sin(EARTH_OBLIQUITY), Sin(lambda_sun)))

\* gha of calculate_hour_angle, line 165
greenwich_hour_angle(julian_day) ==
    AngleAfter(280461, 98564737, 360985647, DaysSub(julian_day, J2000))

\* mutant: the half turn is moved to the negative side
calculate_hour_angle_closed_below(longitude, julian_day) ==
    LET lha == (greenwich_hour_angle(julian_day) + longitude) % Deg(360)
    IN IF lha >= Deg(180) THEN lha - Deg(360) ELSE lha

\* TimeService.calculate_hour_angle
calculate_hour_angle(longitude, julian_day) ==
    LET \* gha = (280.460618 + 360.98564736629 * (julian_day - 2451545.0)) % 360
        gha == AngleAfter(280461, 98564737, 360985647, DaysSub(julian_day, J2000))
        lha == (gha + longitude) % Deg(360)
    IN IF lha > Deg(180) THEN lha - Deg(360) ELSE lha

-----------------------------------------------------------------------------
(* Sun position: TimeService.calculate_sun_position, lines 197-262 *)

\* the dictionary returned when the calculation raised
SunPositionFallback ==
    [elevation |-> 0, azimuth |-> 0, zenith |-> 9000, declination |-> 0,
     hour_angle |-> 0, air_mass |-> None, is_daylight |-> FALSE,
     julian_day |-> Days(0, 0), raised |-> TRUE]

\* The calculation of lines 199-249. The rounded fields of the result are in
\* hundredths (of a degree, of an air mass); raised tells that the except branch
\* produced the result. At the subsolar point (latitude = declination, hour
\* angle 0) the argument of asin is sin^2 + cos^2, which the floats round to 1.0
\* or to the next float above 1.0: ulp is that outcome.
sun_position(latitude, longitude, dt, ulp) ==
    LET jd == calculate_julian_day(dt)
        declination == calculate_solar_declination(jd)
        hour_angle == calculate_hour_angle(longitude, jd)
        sum == MulS(Sin(latitude), Sin(declination))
                 + MulS(MulS(Cos(latitude), Cos(declination)), Cos(hour_angle))
        x == IF latitude = declination /\ hour_angle = 0 THEN Unit + ulp ELSE sum
        elevation == Asin(x)
        azimuth_rad ==
            Atan2(Sin(hour_angle),
                  MulS(Cos(hour_angle), Sin(latitude))
                    - MulS(Quot(Sin(declination), Cos(declination)), Cos(latitude)))
        azimuth == (azimuth_rad + Deg(180)) % Deg(360)
        zenith == Deg(90) - elevation
        air_mass == IF zenith < Deg(85)
                    THEN RoundDiv(100 * Unit, Cos(zenith))
                    ELSE 3800
    IN IF x > Unit \/ x < -Unit
       THEN SunPositionFallback
       ELSE [elevation   |-> RoundDiv(elevation, 10),
             azimuth     |-> RoundDiv(azimuth, 10),
             zenith      |-> RoundDiv(zenith, 10),
             declination |-> RoundDiv(declination, 10),
             hour_angle  |-> RoundDiv(hour_angle, 10),
             air_mass    |-> IF elevation > 0 THEN air_mass ELSE None,
             is_daylight |-> elevation > Deg(-6),
             julian_day  |-> jd,
             raised      |-> FALSE]

\* the calendar of datetime
IsLeap(year) == year % 4 = 0 /\ (year % 100 # 0 \/ year % 400 = 0)

DaysInMonth(year, month) ==
    CASE month \in {4, 6, 9, 11} -> 30
      [] month = 2 -> IF IsLeap(year) THEN 29 ELSE 28
      [] OTHER -> 31

\* dt + timedelta(days=1)
PlusOneDay(dt) ==
    IF dt.day < DaysInMonth(dt.year, dt.month)
    THEN [dt EXCEPT !.day = @ + 1]
    ELSE IF dt.month < 12
         THEN [dt EXCEPT !.day = 1, !.month = @ + 1]
         ELSE [dt EXCEPT !.day = 1, !.month = 1, !.year = @ + 1]

\* dt - timedelta(days=1)
MinusOneDay(dt) ==
    IF dt.day > 1
    THEN [dt EXCEPT !.day = @ - 1]
    ELSE IF dt.month > 1
         THEN [dt EXCEPT !.day = DaysInMonth(dt.year, dt.month - 1), !.month = @ - 1]
         ELSE [dt EXCEPT !.day = 31, !.month = 12, !.year = @ - 1]

\* the instants passed to the astronomy functions: inside the months and at
\* their ends, in a leap year and in a common year, at three times of day
Years == {2023, 2024}
MonthDays == {1, 15, 21, 28, 29, 30, 31}
TimesOfDay == {<<0, 0, 0>>, <<12, 0, 0>>, <<20, 48, 15>>}

Instants ==
    {dt \in {Datetime(y, m, d, t[1], t[2], t[3]) :
                y \in Years, m \in 1..12, d \in MonthDays, t \in TimesOfDay} :
        dt.day <= DaysInMonth(dt.year, dt.month)}

-----------------------------------------------------------------------------
(* Terminator: TimeService.calculate_day_night_boundary, lines 299-351 *)

\* math.tan(math.radians(angle)) in millionths, for -180 < angle <= 180 degrees.
\* As with the floats, it is zero at angle 0 only: math.tan(math.pi / 2) is
\* 1.6e16 and math.tan(math.pi) is -1.2e-16.
Tan(angle) ==
    CASE angle = 0       -> 0
      [] Cos(angle) = 0  -> IF Sin(angle) > 0 THEN Huge ELSE -Huge
      [] Sin(angle) = 0  -> IF angle > 0 THEN -1 ELSE 1
      [] OTHER           -> Quot(Sin(angle), Cos(angle))

\* longitude = -180 + (360 * i / num_points)
SampleLongitude(i, num_points) == Deg(-180) + (Deg(360) * i) \div num_points

\* mutant: a longitude without a real solution gets the pole
boundary_latitude_beyond_pole(declination, hour_angle, exact) ==
    LET tan_h == IF hour_angle = 0 THEN 1 ELSE Tan(hour_angle)
        cos_lat == Quot(-Tan(declination), tan_h)
        abs_cos_lat == IF cos_lat < 0 THEN -cos_lat ELSE cos_lat
    IN IF abs_cos_lat <= Unit THEN Acos(abs_cos_lat) ELSE Deg(90) + abs_cos_lat

\* mutant: the latitude does not take the sign of cos_lat
boundary_latitude_unsigned(declination, hour_angle, exact) ==
    LET abs_declination == IF declination < 0 THEN -declination ELSE declination
        tan_h == IF hour_angle = 0 THEN 1 ELSE Tan(hour_angle)
        cos_lat == Quot(-Tan(declination), tan_h)
        abs_cos_lat == IF cos_lat < 0 THEN -cos_lat ELSE cos_lat
    IN IF hour_angle = 0 /\ exact
       THEN 0
       ELSE IF abs_cos_lat <= Unit
            THEN Acos(abs_cos_lat)
            ELSE IF declination > 0
                 THEN Deg(90) - abs_declination
                 ELSE Deg(-90) + abs_declination

\* The latitude of the boundary point at one longitude, lines 315-343. A hour
\* angle that the model holds as 0 is 0.0 in the floats, and then the division
\* raises ZeroDivisionError, or it is a tiny angle: exact tells which. The sign
\* of cos_lat is taken from the signs of its operands, the quotient itself can
\* be below the resolution of the model.
boundary_latitude(declination, hour_angle, exact) ==
    LET abs_declination == IF declination < 0 THEN -declination ELSE declination
        tan_d == Tan(declination)
        tan_h == IF hour_angle = 0 THEN 1 ELSE Tan(hour_angle)
        \* cos_lat = -math.tan(declination) / math.tan(hour_angle)
        cos_lat == Quot(-tan_d, tan_h)
        abs_cos_lat == IF cos_lat < 0 THEN -cos_lat ELSE cos_lat
        negative == tan_d # 0 /\ ((tan_d > 0) = (tan_h > 0))
    IN IF hour_angle = 0 /\ exact
       THEN \* except (ZeroDivisionError, ValueError)
            IF abs_declination < Deg(45) THEN 0
            ELSE IF declination > 0 THEN Deg(90) ELSE Deg(-90)
       ELSE IF abs_cos_lat <= Unit
            THEN IF negative THEN -Acos(abs_cos_lat) ELSE Acos(abs_cos_lat)
            ELSE IF declination > 0
                 THEN Deg(90) - abs_declination
                 ELSE Deg(-90) + abs_declination

\* the DayNightBoundary of lines 301-346
day_night_boundary(dt, num_points, exact) ==
    LET jd == calculate_julian_day(dt)
        declination == calculate_solar_declination(jd)
    IN [coordinates |->
            [k \in 1..num_points |->
                LET longitude == SampleLongitude(k - 1, num_points) IN
                <<longitude,
                  boundary_latitude(declination,
                                    calculate_hour_angle(longitude, jd), exact)>>],
        calculated_at |-> dt]

-----------------------------------------------------------------------------
(* The astronomy functions that consult the cache *)

\* self.cache_manager.get(cache_type, *args): the store and the counters after
\* the call, and what it returned
cache_get(store, s, config, time, cache_type, key) ==
    IF key \in DOMAIN store
    THEN IF ~_is_expired(config, time, store[key].timestamp, cache_type)
         THEN [cache |-> store, stats |-> CountHit(s), hit |-> TRUE,
               data |-> store[key].data]
         ELSE [cache |-> Remove(store, {key}),
               stats |-> CountMiss(CountEvictions(s, 1)), hit |-> FALSE,
               data |-> None]
    ELSE [cache |-> store, stats |-> CountMiss(s), hit |-> FALSE, data |-> None]

\* mutant: every argument is written alike
Str_alike(x) == "x"

\* str(x) of an argument, as json.dumps(..., default=str) writes it
Str(x) == ToString(x)

\* the calls of calculate_sun_position: Tokyo at noon of the June solstice and
\* 12 seconds later, two places near the end of civil twilight at that time,
\* and the subsolar point of 2024-04-04 20:48
SunCalls ==
    {<<35680, 139690, Datetime(2024, 6, 21, 12, 0, 0)>>,
     <<35680, 139690, Datetime(2024, 6, 21, 12, 0, 12)>>,
     <<10336, 96137, Datetime(2024, 6, 21, 12, 0, 0)>>,
     <<-63278, 144806, Datetime(2024, 6, 21, 12, 0, 0)>>,
     <<6128, -145837, Datetime(2024, 4, 4, 20, 48, 0)>>}

\* what a cached astronomy call leaves alone
skyFrame == <<now, ttl_config, last, written, reconfigured, callerVars, api>>

\* TimeService.calculate_sun_position
calculate_sun_position(latitude, longitude, dt, ulp) ==
    LET \* (latitude, longitude, dt.replace(second=0, microsecond=0))
        cache_key_data == <<Str(latitude), Str(longitude),
                            Str([dt EXCEPT !.second = 0])>>
        key == _generate_key(SunPosition, cache_key_data, <<>>)
        got == cache_get(cache, stats, ttl_config, now, SunPosition, key)
        result == sun_position(latitude, longitude, dt, ulp)
        call == [op |-> "calculate_sun_position", latitude |-> latitude,
                 longitude |-> longitude, dt |-> dt]
    IN
    /\ getCalls < MaxGets
    /\ getCalls' = getCalls + 1
    /\ expiredRemoved' = expiredRemoved + Removed(cache, got.cache)
    /\ IF got.hit
       THEN /\ sky' = [call |-> call, result |-> got.data, cached |-> TRUE]
            /\ cache' = got.cache
            /\ stats' = got.stats
       ELSE IF result.raised
            THEN /\ sky' = [call |-> call, result |-> result, cached |-> FALSE]
                 /\ cache' = got.cache
                 /\ stats' = got.stats
            ELSE /\ got.stats.sets < MaxSets
                 /\ sky' = [call |-> call, result |-> result, cached |-> FALSE]
                 /\ cache' = Put(got.cache, key,
                                 Entry(result, now, SunPosition,
                                       [args |-> cache_key_data, kwargs |-> <<>>]))
                 /\ stats' = [got.stats EXCEPT !.sets = @ + 1]
    /\ UNCHANGED skyFrame

\* the elevation of calculate_sun_position, lines 211-216:
\* asin(sin(lat) sin(dec) + cos(lat) cos(dec) cos(hour_angle))
solar_elevation(latitude, declination, hour_angle) ==
    LET x == MulS(Sin(latitude), Sin(declination))
             + MulS(MulS(Cos(latitude), Cos(declination)), Cos(hour_angle))
    IN Asin(IF x > Unit THEN Unit ELSE IF x < -Unit THEN -Unit ELSE x)

DayNightBoundaryLabel == <<"day_night_boundary">>

\* the calls of calculate_day_night_boundary: two instants in the same 10
\* minutes, at the first of which the hour angle is 0, 90 and 180 degrees at
\* sampled longitudes, and one in the other half of the year; the point counts
\* are the default 360, a small one, one and none
BoundaryCalls ==
    {<<Datetime(2024, 6, 21, 12, 41, 23), 360>>,
     <<Datetime(2024, 6, 21, 12, 45, 0), 360>>,
     <<Datetime(2024, 6, 21, 12, 45, 0), 8>>,
     <<Datetime(2024, 12, 21, 0, 0, 0), 8>>,
     <<Datetime(2024, 12, 21, 0, 0, 0), 1>>,
     <<Datetime(2024, 12, 21, 0, 0, 0), 0>>}

\* TimeService.calculate_day_night_boundary
calculate_day_night_boundary(dt, num_points, exact) ==
    LET \* dt.replace(minute=dt.minute//10*10, second=0, microsecond=0)
        cache_time == [dt EXCEPT !.minute = (dt.minute \div 10) * 10, !.second = 0]
        cache_key_data == <<Str(cache_time), Str(num_points)>>
        key == _generate_key(DayNightBoundaryLabel, cache_key_data, <<>>)
        got == cache_get(cache, stats, ttl_config, now, DayNightBoundaryLabel, key)
        boundary == day_night_boundary(dt, num_points, exact)
        call == [op |-> "calculate_day_night_boundary", dt |-> dt,
                 num_points |-> num_points]
    IN
    /\ getCalls < MaxGets
    /\ getCalls' = getCalls + 1
    /\ expiredRemoved' = expiredRemoved + Removed(cache, got.cache)
    /\ IF got.hit
       THEN /\ sky' = [call |-> call, result |-> got.data, cached |-> TRUE]
            /\ cache' = got.cache
            /\ stats' = got.stats
       ELSE /\ got.stats.sets < MaxSets
            /\ sky' = [call |-> call, result |-> boundary, cached |-> FALSE]
            /\ cache' = Put(got.cache, key,
                            Entry(boundary, now, DayNightBoundaryLabel,
                                  [args |-> cache_key_data, kwargs |-> <<>>]))
            /\ stats' = [got.stats EXCEPT !.sets = @ + 1]
    /\ UNCHANGED skyFrame

NextSky ==
    \/ \E c \in SunCalls, ulp \in {0, 1} :
          calculate_sun_position(c[1], c[2], c[3], ulp)
    \/ \E d \in TickSteps : TickCallers(d)

SpecSky == Init /\ [][NextSky]_vars

\* the calls of calculate_day_night_boundary next to those of
\* calculate_sun_position: two instants of one 10-minute bucket with the same
\* point count, another point count and another bucket
MemoBoundaryCalls ==
    {<<Datetime(2024, 6, 21, 12, 41, 23), 8>>,
     <<Datetime(2024, 6, 21, 12, 45, 0), 8>>,
     <<Datetime(2024, 6, 21, 12, 45, 0), 1>>,
     <<Datetime(2024, 6, 21, 12, 50, 0), 8>>}

\* the calls of calculate_sun_position next to those of the boundary: two
\* instants of one minute at one place, the next minute, another place, and
\* the subsolar point of 2024-04-04 20:48
MemoSunCalls ==
    {<<35680, 139690, Datetime(2024, 6, 21, 12, 0, 0)>>,
     <<35680, 139690, Datetime(2024, 6, 21, 12, 0, 12)>>,
     <<35680, 139690, Datetime(2024, 6, 21, 12, 1, 0)>>,
     <<35680, 139700, Datetime(2024, 6, 21, 12, 0, 0)>>,
     <<6128, -145837, Datetime(2024, 4, 4, 20, 48, 0)>>}

\* both memoized functions on one cache
NextMemo ==
    \/ \E c \in MemoSunCalls, ulp \in {0, 1} :
          calculate_sun_position(c[1], c[2], c[3], ulp)
    \/ \E c \in MemoBoundaryCalls, exact \in BOOLEAN :
          calculate_day_night_boundary(c[1], c[2], exact)

SpecMemo == Init /\ [][NextMemo]_vars

NextTerminator ==
    \/ \E c \in BoundaryCalls, exact \in BOOLEAN :
          calculate_day_night_boundary(c[1], c[2], exact)

SpecTerminator == Init /\ [][NextTerminator]_vars

\* what the astronomy steps without cache access leave alone
-----------------------------------------------------------------------------
(* Sunrise and sunset: TimeService.calculate_sunrise_sunset, lines 372-436.
   Decimal hours are counted in units of 1/15000 hour, the time in which the
   hour angle advances by a thousandth of a degree. *)

HourUnit == 15000

\* int(x) of a quotient: truncation toward zero
TruncDiv(a, b) == IF a >= 0 THEN a \div b ELSE -((-a) \div b)

\* cos_hour_angle, lines 383-386. The divisor is never 0.0 in the floats
\* (math.cos(math.radians(90)) is 6.1e-17), so at a pole the quotient is out of
\* range with the sign of the dividend.
cos_hour_angle(latitude, declination) ==
    LET num == Sin(-833) - MulS(Sin(latitude), Sin(declination))
        den == MulS(Cos(latitude), Cos(declination))
    IN IF den = 0
       THEN IF num < 0 THEN -Huge ELSE IF num > 0 THEN Huge ELSE 0
       ELSE Quot(num, den)

\* the result of the except branch, line 436
SunriseSunsetFallback ==
    [sunrise |-> <<>>, sunset |-> <<>>, polar_day |-> FALSE, polar_night |-> FALSE]

\* mutant: the two polar states exchanged
polar_state_exchanged(c) ==
    IF c < -Unit
    THEN [sunrise |-> <<>>, sunset |-> <<>>, polar_day |-> FALSE, polar_night |-> TRUE]
    ELSE [sunrise |-> <<>>, sunset |-> <<>>, polar_day |-> TRUE, polar_night |-> FALSE]

\* the results of lines 388-395, for abs(cos_hour_angle) > 1; an absent time is
\* the empty sequence and a present one a sequence of one date-time
polar_state(c) ==
    IF c < -Unit
    THEN [sunrise |-> <<>>, sunset |-> <<>>, polar_day |-> TRUE, polar_night |-> FALSE]
    ELSE [sunrise |-> <<>>, sunset |-> <<>>, polar_day |-> FALSE, polar_night |-> TRUE]

\* decimal_hour_to_datetime, lines 408-421: <<raised, date-time>>.
\* base_date.replace raises ValueError for a negative minute or second.
decimal_hour_to_datetime(decimal_hour, base_date) ==
    LET hours == TruncDiv(decimal_hour, HourUnit)
        rest == decimal_hour - hours * HourUnit
        minutes == TruncDiv(rest, 250)
        seconds == TruncDiv((rest - minutes * 250) * 6, 25)
        day == IF hours >= 24 THEN PlusOneDay(base_date)
               ELSE IF hours < 0 THEN MinusOneDay(base_date)
               ELSE base_date
        hour == IF hours >= 24 THEN hours - 24
                ELSE IF hours < 0 THEN hours + 24
                ELSE hours
    IN IF hour \in 0..23 /\ minutes \in 0..59 /\ seconds \in 0..59
       THEN <<FALSE, [day EXCEPT !.hour = hour, !.minute = minutes, !.second = seconds]>>
       ELSE <<TRUE, base_date>>

\* TimeService.calculate_sunrise_sunset
calculate_sunrise_sunset(latitude, longitude, date) ==
    LET noon_dt == [date EXCEPT !.hour = 12, !.minute = 0, !.second = 0]
        jd == calculate_julian_day(noon_dt)
        declination == calculate_solar_declination(jd)
        c == cos_hour_angle(latitude, declination)
        hour_angle == Acos(c)
        \* solar_noon = 12 - longitude / 15
        solar_noon == 12 * HourUnit - longitude
        sunrise_hour == solar_noon - hour_angle
        sunset_hour == solar_noon + hour_angle
        midnight == [date EXCEPT !.hour = 0, !.minute = 0, !.second = 0]
        sunrise == decimal_hour_to_datetime(sunrise_hour, midnight)
        sunset == decimal_hour_to_datetime(sunset_hour, midnight)
    IN IF c > Unit \/ c < -Unit THEN polar_state(c)
       ELSE IF sunrise[1] \/ sunset[1] THEN SunriseSunsetFallback
       ELSE [sunrise |-> <<sunrise[2]>>, sunset |-> <<sunset[2]>>,
             polar_day |-> FALSE, polar_night |-> FALSE,
             \* round(sunset_hour - sunrise_hour, 2), in hundredths of an hour
             daylight_hours |-> RoundDiv((sunset_hour - sunrise_hour) * 100, HourUnit)]

\* the places and dates of the calls of calculate_sunrise_sunset
SunLatitudes == {Deg(-90), Deg(-80), 0, 35680, Deg(80), Deg(90)}
SunLongitudes == {Deg(-180), Deg(-74), 0, 139690, Deg(180)}
SunDates ==
    {Datetime(2024, 3, 20, 0, 0, 0), Datetime(2024, 6, 21, 20, 48, 15),
     Datetime(2024, 12, 21, 12, 0, 0), Datetime(2024, 12, 31, 0, 0, 0),
     Datetime(2024, 3, 1, 0, 0, 0)}

astroFrame == <<now, cache, ttl_config, stats, last, written, getCalls,
                expiredRemoved, reconfigured, callerVars, api>>

\* a call of calculate_julian_day
julian_day(dt) ==
    /\ sky' = [call |-> [op |-> "calculate_julian_day", dt |-> dt],
               result |-> calculate_julian_day(dt)]
    /\ UNCHANGED astroFrame

\* TimeService.get_solar_noon, lines 451-467: replace raises ValueError for a
\* negative minute, and nothing catches it
get_solar_noon(longitude, date) ==
    LET \* solar_noon_hour = 12 - longitude / 15
        solar_noon_hour == 12 * HourUnit - longitude
        whole == TruncDiv(solar_noon_hour, HourUnit)
        hours == whole % 24
        minutes == TruncDiv(solar_noon_hour - whole * HourUnit, 250)
        solar_noon == [date EXCEPT !.hour = hours, !.minute = minutes, !.second = 0]
    IN IF minutes \notin 0..59
       THEN [raised |-> TRUE]
       ELSE [raised |-> FALSE,
             value |-> IF solar_noon_hour >= 24 * HourUnit THEN PlusOneDay(solar_noon)
                       ELSE IF solar_noon_hour < 0 THEN MinusOneDay(solar_noon)
                       ELSE solar_noon]

\* dt.timetuple().tm_yday
RECURSIVE DaysBefore(_, _)
DaysBefore(year, month) ==
    IF month = 1 THEN 0
    ELSE DaysBefore(year, month - 1) + DaysInMonth(year, month - 1)

\* TimeService.get_season_info, lines 482-509; the declination is in hundredths
\* of a degree
get_season_info(dt) ==
    LET jd == calculate_julian_day(dt)
        declination == calculate_solar_declination(jd)
        day_of_year == DaysBefore(dt.year, dt.month) + dt.day
        season_nh == CASE day_of_year < 80 \/ day_of_year > 355 -> "Winter"
                       [] day_of_year < 172 -> "Spring"
                       [] day_of_year < 266 -> "Summer"
                       [] OTHER -> "Autumn"
        season_sh == CASE season_nh = "Winter" -> "Summer"
                       [] season_nh = "Spring" -> "Autumn"
                       [] season_nh = "Summer" -> "Winter"
                       [] OTHER -> "Spring"
    IN [northern_hemisphere |-> season_nh, southern_hemisphere |-> season_sh,
        solar_declination |-> RoundDiv(declination, 10),
        day_of_year |-> day_of_year, julian_day |-> jd]

\* the longitudes and instants of the calls of calculate_hour_angle: at
\* 12:41:23 the Greenwich hour angle is 173 degrees
HourAngleLongitudes == {Deg(-180), Deg(-173), 0, Deg(7), 139690, Deg(180)}
HourAngleInstants ==
    {Datetime(2024, 6, 21, 12, 41, 23), Datetime(2024, 6, 21, 12, 0, 0),
     Datetime(2023, 1, 1, 0, 0, 0)}

\* a call of calculate_solar_declination
solar_declination(dt) ==
    /\ sky' = [call |-> [op |-> "calculate_solar_declination",
                         julian_day |-> calculate_julian_day(dt)],
               result |-> calculate_solar_declination(calculate_julian_day(dt))]
    /\ UNCHANGED astroFrame

\* a call of calculate_hour_angle
hour_angle_of(longitude, dt) ==
    /\ sky' = [call |-> [op |-> "calculate_hour_angle", longitude |-> longitude,
                         julian_day |-> calculate_julian_day(dt)],
               result |-> calculate_hour_angle(longitude, calculate_julian_day(dt))]
    /\ UNCHANGED astroFrame

\* the calculation of calculate_sun_position, after a miss
solar_position(latitude, longitude, dt, ulp) ==
    /\ sky' = [call |-> [op |-> "calculate_sun_position", latitude |-> latitude,
                         longitude |-> longitude, dt |-> dt],
               result |-> sun_position(latitude, longitude, dt, ulp)]
    /\ UNCHANGED astroFrame

\* the calculation of calculate_day_night_boundary, after a miss
terminator(dt, num_points, exact) ==
    /\ sky' = [call |-> [op |-> "calculate_day_night_boundary", dt |-> dt,
                         num_points |-> num_points],
               result |-> day_night_boundary(dt, num_points, exact)]
    /\ UNCHANGED astroFrame

\* a call of get_solar_noon
solar_noon_of(longitude, date) ==
    /\ sky' = [call |-> [op |-> "get_solar_noon", longitude |-> longitude,
                         date |-> date],
               result |-> get_solar_noon(longitude, date)]
    /\ UNCHANGED astroFrame

\* a call of get_season_info
season_info(dt) ==
    /\ sky' = [call |-> [op |-> "get_season_info", dt |-> dt],
               result |-> get_season_info(dt)]
    /\ UNCHANGED astroFrame

\* a call of calculate_sunrise_sunset
sunrise_sunset(latitude, longitude, date) ==
    /\ sky' = [call |-> [op |-> "calculate_sunrise_sunset", latitude |-> latitude,
                         longitude |-> longitude, date |-> date],
               result |-> calculate_sunrise_sunset(latitude, longitude, date)]
    /\ UNCHANGED astroFrame

NextAstro ==
    \/ \E dt \in Instants : julian_day(dt)
    \/ \E latitude \in SunLatitudes, longitude \in SunLongitudes, date \in SunDates :
          sunrise_sunset(latitude, longitude, date)
    \/ \E dt \in SunDates : solar_declination(dt)
    \/ \E longitude \in HourAngleLongitudes, dt \in HourAngleInstants :
          hour_angle_of(longitude, dt)
    \/ \E c \in SunCalls, ulp \in {0, 1} : solar_position(c[1], c[2], c[3], ulp)
    \/ \E c \in {b \in BoundaryCalls : b[2] <= 8}, exact \in BOOLEAN :
          terminator(c[1], c[2], exact)
    \/ \E longitude \in SunLongitudes, date \in SunDates : solar_noon_of(longitude, date)
    \/ \E dt \in SunDates : season_info(dt)

SpecAstro == Init /\ [][NextAstro]_vars

-----------------------------------------------------------------------------
(* APIClient: src/src/data/api_client.py *)

\* self.min_request_interval = 1.0, in seconds
min_request_interval == 1

\* time.time() at the construction of the client, in seconds: now counts from
\* there, and the clock has long passed last_request_time = 0
ClockAtStart == 10

time_time(t) == ClockAtStart + t

\* a client sends at most MaxRequests requests
MaxRequests == 3

\* what session.get does: a status code, with a body that is a JSON object
\* with data, an empty one or one that WeatherData cannot read, or an exception
\* of requests
Responses ==
    {"200", "200 empty", "200 malformed", "401", "404", "429", "500",
     "Timeout", "ConnectionError"}

\* time.sleep(seconds) returns after at least that time
Overshoots == {0, 1}

\* the seconds between two calls of the client
RequestGaps == {1, 2}

\* mutant: the pause is the time that has elapsed
_rate_limit_elapsed(client, t, overshoot) ==
    LET elapsed == time_time(t) - client.last_request_time
        woke == IF elapsed < min_request_interval THEN t + elapsed + overshoot ELSE t
    IN [time |-> woke,
        client |-> [client EXCEPT !.last_request_time = time_time(woke)]]

\* APIClient._rate_limit, lines 62-70: the time after the call and the client
_rate_limit(client, t, overshoot) ==
    LET current_time == time_time(t)
        elapsed == current_time - client.last_request_time
        woke == IF elapsed < min_request_interval
                THEN t + (min_request_interval - elapsed) + overshoot
                ELSE t
    IN [time |-> woke,
        client |-> [client EXCEPT !.last_request_time = time_time(woke)]]

\* APIClient._make_request, lines 72-146: the time after the call, the client,
\* whether a request was sent, and the JSON returned or the exception raised.
\* An APIError or RateLimitError raised for a status code is caught by the last
\* except clause, counted, and raised again as an APIError.
_make_request(client, t, response, overshoot) ==
    IF ~client.api_key
    THEN [time |-> t, client |-> client, sent |-> FALSE, json |-> None, raised |-> None]
    ELSE LET limited == _rate_limit(client, t, overshoot)
             counted == [limited.client EXCEPT !.request_count = @ + 1]
         IN IF response \in {"200", "200 empty", "200 malformed"}
            THEN [time |-> limited.time, client |-> counted, sent |-> TRUE,
                  json |-> response, raised |-> None]
            ELSE [time |-> limited.time,
                  client |-> [counted EXCEPT !.error_count = @ + 1],
                  sent |-> TRUE, json |-> None, raised |-> "APIError"]

apiFrame == <<cache, ttl_config, stats, last, written, getCalls, expiredRemoved,
              reconfigured, callerVars>>

\* a call of _make_request
make_request(response, overshoot) ==
    LET made == _make_request(api, now, response, overshoot) IN
    /\ api.request_count < MaxRequests
    /\ made.time <= MaxTime
    /\ now' = made.time
    /\ api' = made.client
    /\ sky' = [call |-> [op |-> "_make_request", at |-> now],
               result |-> [json |-> made.json, raised |-> made.raised],
               sent |-> made.sent]
    /\ UNCHANGED apiFrame

\* time passes between two calls of the client
Pause(d) ==
    /\ now + d <= MaxTime
    /\ now' = now + d
    /\ UNCHANGED <<apiFrame, sky, api>>

NextAPI ==
    \/ \E response \in Responses, overshoot \in Overshoots :
          make_request(response, overshoot)
    \/ \E d \in RequestGaps : Pause(d)

SpecAPI == Init /\ [][NextAPI]_vars

-----------------------------------------------------------------------------
(* WeatherService: src/src/business/weather_service.py *)

\* the city of the requests, with its coordinates as the f-string writes them
Tokyo == [id |-> 1850147, latitude |-> "35.6895", longitude |-> "139.6917"]

\* the values of units and of days in the requests; days outside 1..5 become 5
UnitsOfRequests == {"metric"}
DaysOfRequests == {5, 7}

\* mutant: the response is stored whatever it holds
Readable_any(response) == TRUE

\* a body from which WeatherData.from_openweather_api builds an object
Readable(response) == response = "200"

\* The common course of get_weather, get_weather_by_coordinates and
\* get_forecast: the cache is asked first, after a miss the client is called,
\* and an object built from the response is stored. unreadable is what the
\* method returns for a body that is not empty and cannot be read.
weather_request(op, cache_key, value, unreadable, response, overshoot) ==
    LET key == _generate_key(Weather, <<cache_key>>, <<>>)
        got == cache_get(cache, stats, ttl_config, now, Weather, key)
        made == _make_request(api, now, response, overshoot)
        call == [op |-> op, cache_key |-> cache_key]
    IN
    /\ getCalls < MaxGets
    /\ getCalls' = getCalls + 1
    /\ written' = written
    /\ IF got.hit
       THEN /\ sky' = [call |-> call, result |-> got.data, cached |-> TRUE,
                       response |-> None]
            /\ cache' = got.cache
            /\ stats' = got.stats
            /\ expiredRemoved' = expiredRemoved
            /\ UNCHANGED <<now, api>>
       ELSE /\ api.request_count < MaxRequests
            /\ made.time <= MaxTime
            /\ now' = made.time
            /\ api' = made.client
            /\ expiredRemoved' = expiredRemoved + Removed(cache, got.cache)
            /\ IF made.json # None /\ Readable(response)
               THEN /\ got.stats.sets < MaxSets
                    /\ sky' = [call |-> call, result |-> value, cached |-> FALSE,
                               response |-> response]
                    /\ cache' = Put(got.cache, key,
                                    Entry(value, made.time, Weather,
                                          [args |-> <<cache_key>>, kwargs |-> <<>>]))
                    /\ stats' = [got.stats EXCEPT !.sets = @ + 1]
               ELSE /\ sky' = [call |-> call,
                               result |-> IF made.json = "200 malformed"
                                          THEN unreadable ELSE None,
                               cached |-> FALSE, response |-> response]
                    /\ cache' = got.cache
                    /\ stats' = got.stats
    /\ UNCHANGED <<ttl_config, last, reconfigured, callerVars>>

\* WeatherService.get_weather
get_weather(city, units, response, overshoot) ==
    weather_request("get_weather",
                    "weather_" \o Str(city.id) \o "_" \o units,
                    "WeatherData", None, response, overshoot)

\* WeatherService.get_weather_by_coordinates
get_weather_by_coordinates(lat, lon, units, response, overshoot) ==
    weather_request("get_weather_by_coordinates",
                    "weather_" \o lat \o "_" \o lon \o "_" \o units,
                    "WeatherData", None, response, overshoot)

\* WeatherService.get_forecast: a list without a readable item is returned
\* empty and is not stored
get_forecast(city, days, units, response, overshoot) ==
    LET valid_days == IF days < 1 \/ days > 5 THEN 5 ELSE days IN
    weather_request("get_forecast",
                    "forecast_" \o Str(city.id) \o "_" \o Str(valid_days) \o "_" \o units,
                    "forecast_list", "[]", response, overshoot)

NextWeather ==
    \/ \E units \in UnitsOfRequests, response \in Responses, overshoot \in Overshoots :
          get_weather(Tokyo, units, response, overshoot)
    \/ \E units \in UnitsOfRequests, response \in Responses, overshoot \in Overshoots :
          get_weather_by_coordinates(Tokyo.latitude, Tokyo.longitude, units,
                                     response, overshoot)
    \/ \E days \in DaysOfRequests, units \in UnitsOfRequests,
          response \in Responses, overshoot \in Overshoots :
          get_forecast(Tokyo, days, units, response, overshoot)
    \/ \E d \in TickSteps : TickCallers(d)

SpecWeather == Init /\ [][NextWeather]_vars

-----------------------------------------------------------------------------
(* The size of the store: Config.CACHE_SIZE_LIMIT and CacheManager.set *)

\* Config.CACHE_SIZE_LIMIT
CACHE_SIZE_LIMIT == 1000

\* the cities a caller stores the weather of, one after the other: one more
\* than the limit
FillCities == 1..(CACHE_SIZE_LIMIT + 1)

\* the arguments of the set call for the i-th city
CityArgs(i) == [args |-> <<"weather_" \o Str(i) \o "_metric">>, kwargs |-> <<>>]

\* CacheManager.set for the i-th city, the cities taken in order
set_city(i) ==
    LET a == CityArgs(i)
        key == _generate_key(Weather, a.args, a.kwargs)
    IN
    /\ i = stats.sets + 1
    /\ cache' = Put(cache, key, Entry("v1", now, Weather, a))
    /\ stats' = [stats EXCEPT !.sets = @ + 1]
    /\ last' = Call("set", Weather, a, "v1", key, None, FALSE, 0, -1)
    /\ UNCHANGED <<now, ttl_config, written, getCalls, expiredRemoved, reconfigured>>
    /\ UNCHANGED <<callerVars, sky, api>>

NextFill == \E i \in FillCities : set_city(i)

SpecFill == Init /\ [][NextFill]_vars

-----------------------------------------------------------------------------
(* Vocabulary of the properties *)

\* the identity of the call recorded in a record with cache_type, args, kwargs
IdOf(call) == CallId(call.cache_type, call)

\* the keys of the entries that were set by calls of identity id
EntriesOf(store, id) == {k \in DOMAIN store : IdOf(store[k].call) = id}

\* the category label an entry was set under
SetUnder(store, k) == store[k].call.cache_type

AgeOf(store, k, time) == time - store[k].timestamp

\* every entry of the store after the step was there before it, unchanged
EntriesKept == \A k \in DOMAIN cache' : k \in DOMAIN cache /\ cache'[k] = cache[k]

Abs(x) == IF x < 0 THEN -x ELSE x

-----------------------------------------------------------------------------
(* C1 *)

\* what a get step does when fresh is the set of entries of the call that count
\* as not expired
C1_GetStep(strict) ==
    last'.op = "get" =>
        LET id == IdOf(last')
            ttl == TTLOf(ttl_config, last'.cache_type)
            present == EntriesOf(cache, id)
            fresh == {k \in present :
                        IF strict THEN AgeOf(cache, k, now) < ttl
                                  ELSE AgeOf(cache, k, now) <= ttl}
        IN /\ (last'.retval # None) <=> (fresh # {})
           /\ fresh # {} => last'.retval = written[id] /\ cache' = cache
           /\ fresh = {} => EntriesOf(cache', id) = {}
           /\ EntriesKept

\* C1 as stated: get returns the value of the most recent set of (category,
\* args) if and only if an entry is present and its age is strictly less than
\* the category's TTL; otherwise it returns None and a stale entry is gone;
\* get never changes a stored timestamp.
C1_Original == [][C1_GetStep(TRUE)]_vars

\* C1 amended: the same, with "age at most the TTL" for "age strictly less than
\* the TTL": an entry whose age equals the TTL is still returned.
C1_GetReturnsUnexpired == [][C1_GetStep(FALSE)]_vars

\* a get returned an entry whose age is exactly the TTL of its category
C1_Witness ==
    /\ last.op = "get"
    /\ last.retval \in Values
    /\ last.age = TTLOf(ttl_config, last.cache_type)
    /\ last.key \in DOMAIN cache

-----------------------------------------------------------------------------
(* C2 *)

C2_GetStep ==
    last'.op = "get" =>
        \/ /\ last'.retval # None
           /\ stats'.hits = stats.hits + 1
           /\ stats'.misses = stats.misses
        \/ /\ last'.retval = None
           /\ stats'.misses = stats.misses + 1
           /\ stats'.hits = stats.hits

C2_Totals ==
    /\ stats.hits + stats.misses = getCalls
    /\ get_stats.total_requests = stats.hits + stats.misses
    /\ get_stats.hit_rate_percent_x100 \in 0..10000
    /\ get_stats.total_requests = 0 => get_stats.hit_rate_percent_x100 = 0

\* hit_rate_percent = 100 * hits / total_requests, exactly
C2_ExactRate ==
    get_stats.total_requests > 0 =>
        get_stats.hit_rate_percent_x100 * get_stats.total_requests
            = 10000 * stats.hits

\* hit_rate_percent is 100 * hits / total_requests rounded to two decimals
C2_RoundedRate ==
    get_stats.total_requests > 0 =>
        2 * Abs(get_stats.hit_rate_percent_x100 * get_stats.total_requests
                    - 10000 * stats.hits)
            <= get_stats.total_requests

\* C2 as stated: every get increments exactly one of hits and misses by 1 (hits
\* exactly when a value is returned), hits + misses is the number of get calls
\* since the last clear_all, total_requests = hits + misses, and
\* hit_rate_percent = 100 * hits / total_requests (0 without requests, within
\* 0..100).
C2_Original == [](C2_Totals /\ C2_ExactRate) /\ [][C2_GetStep]_vars

\* C2 amended: the same, with hit_rate_percent equal to 100 * hits /
\* total_requests rounded to two decimal places.
C2_HitMissAccounting == [](C2_Totals /\ C2_RoundedRate) /\ [][C2_GetStep]_vars

\* one hit out of three requests is reported as 33.33 percent
C2_Witness ==
    /\ last.op = "get"
    /\ stats.hits = 1
    /\ stats.misses = 2
    /\ getCalls = 3
    /\ get_stats.hit_rate_percent_x100 = 3333

-----------------------------------------------------------------------------
(* C3 *)

C3_Step ==
    /\ last'.op = "get" =>
          LET stale == {k \in EntriesOf(cache, IdOf(last')) :
                           AgeOf(cache, k, now) = 61}
          IN (stale # {} /\ TTLOf(ttl_config, last'.cache_type) = 60) =>
                /\ last'.retval = None
                /\ stats'.evictions = stats.evictions + 1
    /\ last'.op \in {"set", "delete", "clear_by_type"} =>
          stats'.evictions = stats.evictions

\* C3: an entry of a category with TTL 60 read at age 61 is reported absent and
\* the eviction counter grows by exactly 1; the eviction counter equals the
\* number of entries removed by get on expiry and by cleanup_expired since the
\* last clear_all, and set, delete and clear_by_type leave it alone.
C3_EvictionAccounting == [](stats.evictions = expiredRemoved) /\ [][C3_Step]_vars

\* a get at t0+61 of an entry written at t0 under TTL 60 returned None
C3_Witness ==
    /\ last.op = "get"
    /\ last.age = 61
    /\ TTLOf(ttl_config, last.cache_type) = 60
    /\ last.retval = None
    /\ stats.evictions = 1
    /\ last.key \notin DOMAIN cache

-----------------------------------------------------------------------------
(* C4 *)

C4_Step ==
    /\ last'.op = "set" =>
          LET entries == EntriesOf(cache', IdOf(last')) IN
          /\ Cardinality(entries) = 1
          /\ \A k \in entries : /\ cache'[k].data = last'.value
                                /\ cache'[k].timestamp = now
          /\ stats'.sets = stats.sets + 1
    /\ ( /\ last.op = "set"
         /\ last'.op = "get"
         /\ last'.cache_type = last.cache_type
         /\ last'.args = last.args
         /\ last'.kwargs = last.kwargs ) =>
          /\ last'.retval = last.value
          /\ stats'.hits = stats.hits + 1
          /\ stats'.misses = stats.misses

\* C4: set replaces any existing entry of its key by the new value and the
\* current time and adds 1 to the sets counter; a get with the same category
\* and arguments right after the set returns that value and records one hit
\* and no miss.
C4_SetThenGet == [][C4_Step]_vars

\* a get, with no time elapsed since the second set, returned the value set
C4_Witness ==
    /\ last.op = "get"
    /\ last.age = 0
    /\ now > 0
    /\ last.retval = "v2"
    /\ stats.sets = 2
    /\ stats.hits = 1
    /\ stats.misses = 0

-----------------------------------------------------------------------------
(* C5 *)

\* C5: clear_by_type(c) removes every entry that was set under category c, no
\* entry that was set under another category, and returns the number removed.
C5_ClearByTypeOnlyItsCategory ==
    [][last'.op = "clear_by_type" =>
          LET own == {k \in DOMAIN cache : SetUnder(cache, k) = last'.cache_type}
          IN /\ DOMAIN cache' = (DOMAIN cache) \ own
             /\ last'.retcount = Cardinality(own)
             /\ EntriesKept]_vars

-----------------------------------------------------------------------------
(* C6 *)

\* the entries that are expired under the TTL of the category they were set under
ExpiredUnderOwnTTL(store, config, time) ==
    {k \in DOMAIN store :
        AgeOf(store, k, time) > TTLOf(config, SetUnder(store, k))}

\* C6: cleanup_expired removes exactly the entries whose age exceeds the current
\* TTL of the category they were set under, returns their number and adds it to
\* the eviction counter; afterwards no remaining entry is expired.
C6_CleanupRemovesExactlyExpired ==
    [][last'.op = "cleanup_expired" =>
          LET expired == ExpiredUnderOwnTTL(cache, ttl_config, now) IN
          /\ DOMAIN cache' = (DOMAIN cache) \ expired
          /\ last'.retcount = Cardinality(expired)
          /\ stats'.evictions = stats.evictions + Cardinality(expired)
          /\ ExpiredUnderOwnTTL(cache', ttl_config', now') = {}
          /\ EntriesKept]_vars

-----------------------------------------------------------------------------
(* C7 *)

\* C7: after clear_all the store is empty, the four counters are zero
\* (get_stats: no entries, no requests, hit rate 0), the TTL configuration is
\* unchanged and the call returned the number of entries that were present.
C7_ClearAllResets ==
    [][last'.op = "clear_all" =>
          /\ DOMAIN cache' = {}
          /\ stats'.hits = 0 /\ stats'.misses = 0
          /\ stats'.sets = 0 /\ stats'.evictions = 0
          /\ get_stats'.total_entries = 0
          /\ get_stats'.total_requests = 0
          /\ get_stats'.hit_rate_percent_x100 = 0
          /\ ttl_config' = ttl_config
          /\ last'.retcount = Cardinality(DOMAIN cache)]_vars

\* clear_all emptied a store of two entries
C7_Witness ==
    /\ last.op = "clear_all"
    /\ last.retcount = 2
    /\ DOMAIN cache = {}
    /\ stats = ZeroStats

-----------------------------------------------------------------------------
(* C8 *)

C8_Step ==
    /\ last'.op = "delete" =>
          LET target == EntriesOf(cache, IdOf(last')) IN
          /\ last'.retbool = (target # {})
          /\ DOMAIN cache' = (DOMAIN cache) \ target
          /\ EntriesKept
    /\ ( /\ last.op = "delete"
         /\ last'.op = "get"
         /\ IdOf(last') = IdOf(last) ) =>
          /\ last'.retval = None
          /\ stats'.misses = stats.misses + 1
          /\ stats'.hits = stats.hits

\* C8: delete removes exactly the entry of its (category, args) and returns
\* true if it is present, otherwise returns false and changes nothing; every
\* other entry is unchanged, and a get of the same key right after is a miss.
C8_DeleteExactlyOne == [][C8_Step]_vars

\* delete removed an entry and left another one in the store
C8_Witness ==
    /\ last.op = "delete"
    /\ last.retbool
    /\ last.key \notin DOMAIN cache
    /\ Cardinality(DOMAIN cache) = 1

-----------------------------------------------------------------------------
(* C9 *)

\* C9: once the TTL configured for a category has been changed, get and
\* cleanup_expired judge every entry stored under that category by the new TTL.
C9_ReconfiguredTTLApplies ==
    [][ /\ ( last'.op = "get" /\ last'.cache_type \in reconfigured ) =>
              LET fresh == {k \in EntriesOf(cache, IdOf(last')) :
                              AgeOf(cache, k, now)
                                 <= ttl_config[last'.cache_type]}
              IN (last'.retval # None) <=> (fresh # {})
        /\ last'.op = "cleanup_expired" =>
              \A k \in DOMAIN cache :
                 SetUnder(cache, k) \in reconfigured =>
                    ( (k \notin DOMAIN cache')
                        <=> AgeOf(cache, k, now) > ttl_config[SetUnder(cache, k)] )
      ]_vars

-----------------------------------------------------------------------------
(* C10 *)

\* no two entries of the store were written by calls of the same identity
C10_OneEntryPerCall ==
    \A k1, k2 \in DOMAIN cache :
        IdOf(cache[k1].call) = IdOf(cache[k2].call) => k1 = k2

C10_Step ==
    /\ ( /\ last.op \in {"get", "set", "delete"}
         /\ last'.op \in {"get", "set", "delete"}
         /\ IdOf(last') = IdOf(last) ) => last'.key = last.key
    /\ ( /\ last.op = "set"
         /\ last'.op = "get"
         /\ IdOf(last') = IdOf(last) ) => last'.retval = last.value

\* C10: calls with the same category, the same positional arguments and the same
\* named arguments in any order derive the same key and address the same entry.
C10_KeyIgnoresKwargOrder == []C10_OneEntryPerCall /\ [][C10_Step]_vars

\* a get found the entry that a set with the named arguments in the other order
\* had stored
C10_Witness ==
    /\ last.op = "get"
    /\ last.retval \in Values
    /\ last.key \in DOMAIN cache
    /\ cache[last.key].call.kwargs # last.kwargs
    /\ IdOf(cache[last.key].call) = IdOf(last)

-----------------------------------------------------------------------------
(* C11 *)

\* what get(cache_type, a) would observe: whether an unexpired entry is there,
\* its value, and the time at which it expires
Observed(store, config, time, cache_type, a) ==
    LET key == _generate_key(cache_type, a.args, a.kwargs) IN
    IF key \in DOMAIN store
         /\ ~_is_expired(config, time, store[key].timestamp, cache_type)
    THEN [present |-> TRUE, value |-> store[key].data,
          expires |-> store[key].timestamp + TTLOf(config, cache_type)]
    ELSE [present |-> FALSE, value |-> None, expires |-> -1]

C11_Step ==
    last'.op \in {"set", "delete"} =>
        \A c \in Calls :
            c[1] # last'.cache_type =>
                Observed(cache', ttl_config', now', c[1], c[2])
                    = Observed(cache, ttl_config, now, c[1], c[2])

\* C11: for any two distinct category labels and any argument lists, identical
\* ones included, a set or a delete under one category changes neither the
\* presence, nor the value, nor the expiry that get observes under the other.
C11_CategoriesNeverCollide == [][C11_Step]_vars

\* a set or a delete of tokyo under one category has happened while tokyo is
\* stored under two other categories
C11_Witness ==
    /\ last.op \in {"set", "delete"}
    /\ last.args = <<"tokyo">>
    /\ \E c1, c2 \in Categories :
          /\ c1 # c2 /\ c1 # last.cache_type /\ c2 # last.cache_type
          /\ Observed(cache, ttl_config, now, c1, ArgsTokyo).present
          /\ Observed(cache, ttl_config, now, c2, ArgsTokyo).present

-----------------------------------------------------------------------------
(* C12 *)

\* categories that have no TTL of their own
Unconfigured == {SunPosition, <<"day_night_boundary">>, <<"city_search">>}

\* C12: a freshly constructed cache has the TTLs weather 10 minutes (30 minutes
\* in production), geocoding 1 hour, cities 24 hours, and the 5-minute default
\* for every category without a configured TTL.
C12_FreshTTLs ==
    last.op = "init" =>
        /\ ttl_config[Weather] \in {10 * 60, 30 * 60}
        /\ ttl_config[Weather] = 30 * 60 <=> ttl_config = InitialTTL("production")
        /\ ttl_config[Geocoding] = 60 * 60
        /\ ttl_config[Cities] = 24 * 60 * 60
        /\ \A c \in Unconfigured : TTLOf(ttl_config, c) = 5 * 60

-----------------------------------------------------------------------------
(* C13 *)

Quiescent == \A c \in Callers : pc[c] = "idle"

\* no operation has ended with an exception
NoOperationFailed == \A c \in Callers : local[c].error = None

\* each counter equals the number of the corresponding events
CountersExact ==
    Quiescent => /\ stats.hits = events.hits
                 /\ stats.misses = events.misses
                 /\ stats.sets = events.sets
                 /\ stats.evictions = events.evictions

\* a tuple read from the store is one that a set stored
NoTornRead ==
    \A c \in Callers :
        \A entry \in local[c].entry :
            \E time \in 0..MaxTime :
                entry = Entry(local[c].value, time, local[c].cache_type, local[c].a)
                \/ \E o \in Operations :
                      entry = Entry(o.value, time, o.cache_type, o.a)

\* C13: under every interleaving of get, set, delete, clear_by_type, clear_all
\* and cleanup_expired issued by several simultaneous callers, no counter update
\* is lost, no caller reads a torn entry, and no operation fails because another
\* caller removed or added an entry between its steps.
C13_ConcurrentCallersSafe == CountersExact /\ NoTornRead /\ NoOperationFailed

\* the three parts of C13 one by one
C13_NoLostUpdate == CountersExact
C13_NoFailure == NoOperationFailed

-----------------------------------------------------------------------------
(* C14 *)

\* x < y for two day counts
DaysLess(x, y) == x[1] < y[1] \/ (x[1] = y[1] /\ x[2] < y[2])

\* C14: for every instant T1 and T2 = T1 + exactly 1 day, month ends, the end
\* of February and the year end included, calculate_julian_day(T2) -
\* calculate_julian_day(T1) is 1.0 (the day counts of the model are exact
\* multiples of 1 / DayDen, so "within 1e-9" is equality); hence Julian Day is
\* strictly increasing.
C14_JulianDayAdvancesByOne ==
    sky.call.op = "calculate_julian_day" =>
        LET T2 == PlusOneDay(sky.call.dt) IN
        /\ DaysSub(calculate_julian_day(T2), sky.result) = Days(1, 0)
        /\ DaysLess(sky.result, calculate_julian_day(T2))

\* the part of C14 that holds: Julian Day is strictly increasing from one day
\* to the next
C14_StrictlyIncreasing ==
    sky.call.op = "calculate_julian_day" =>
        DaysLess(sky.result, calculate_julian_day(PlusOneDay(sky.call.dt)))

-----------------------------------------------------------------------------
(* C15 *)

\* C15: in the result of calculate_sun_position, is_daylight is true if and
\* only if the returned elevation is greater than -6 degrees.
C15_DaylightIffElevationAboveMinus6 ==
    sky.call.op = "calculate_sun_position" =>
        (sky.result.is_daylight <=> sky.result.elevation > -600)

\* the two ways in which C15 fails: the flag is taken from the elevation before
\* it is rounded to two decimals, and the dictionary of the except branch has
\* elevation 0 with is_daylight false
C15_FlagFromUnroundedElevation ==
    sky.call.op = "calculate_sun_position" /\ ~sky.result.raised =>
        (sky.result.is_daylight <=> sky.result.elevation > -600)

C15_FallbackConsistent ==
    sky.call.op = "calculate_sun_position" /\ sky.result.raised =>
        (sky.result.is_daylight <=> sky.result.elevation > -600)

-----------------------------------------------------------------------------
(* C16 *)

\* C16: calculate_day_night_boundary returns exactly n points, their longitudes
\* are -180 + 360 * i / n for i = 0..n-1 in that order, each in [-180, 180), and
\* their latitudes lie in [-90, 90], whether the curve was computed or came
\* from the cache.
C16_BoundaryShape ==
    sky.call.op = "calculate_day_night_boundary" =>
        LET n == sky.call.num_points
            coordinates == sky.result.coordinates
        IN /\ Len(coordinates) = n
           /\ \A k \in 1..n :
                /\ coordinates[k][1] = Deg(-180) + (Deg(360) * (k - 1)) \div n
                /\ Deg(-180) <= coordinates[k][1] /\ coordinates[k][1] < Deg(180)
                /\ Deg(-90) <= coordinates[k][2] /\ coordinates[k][2] <= Deg(90)

\* a curve of 360 points came from the cache, for an instant other than the
\* one it was computed for, and it has the point of the division by zero
C16_Witness ==
    /\ sky.call.op = "calculate_day_night_boundary"
    /\ sky.cached
    /\ sky.call.num_points = 360
    /\ sky.result.calculated_at # sky.call.dt
    /\ sky.result.coordinates[8] = <<Deg(-173), 0>>

-----------------------------------------------------------------------------
(* C17 *)

\* the sampled longitudes of a curve at which the code finds a real solution:
\* the hour angle is not 0 and |-tan(dec) / tan(hour_angle)| <= 1
RealSolutions(boundary) ==
    LET jd == calculate_julian_day(boundary.calculated_at)
        declination == calculate_solar_declination(jd)
    IN {k \in 1..Len(boundary.coordinates) :
          LET hour_angle == calculate_hour_angle(boundary.coordinates[k][1], jd)
              cos_lat == IF hour_angle = 0 THEN Huge
                         ELSE Quot(-Tan(declination), Tan(hour_angle))
          IN -Unit <= cos_lat /\ cos_lat <= Unit}

\* C17: at every sampled longitude where a real solution exists, the emitted
\* latitude is one at which the solar elevation of the sun-position formula is
\* zero for that longitude, declination and instant.
C17_BoundaryIsWhereElevationIsZero ==
    sky.call.op = "calculate_day_night_boundary" =>
        LET boundary == sky.result
            jd == calculate_julian_day(boundary.calculated_at)
            declination == calculate_solar_declination(jd)
        IN \A k \in RealSolutions(boundary) :
              LET elevation ==
                      solar_elevation(boundary.coordinates[k][2], declination,
                          calculate_hour_angle(boundary.coordinates[k][1], jd))
              \* zero to a tenth of a degree, the resolution of the arithmetic
              IN -(Deg(1) \div 10) <= elevation /\ elevation <= Deg(1) \div 10

-----------------------------------------------------------------------------
(* C18, C19, C20 *)

\* the value c of the recorded call of calculate_sunrise_sunset
CosHourAngleOfCall ==
    LET noon_dt == [sky.call.date EXCEPT !.hour = 12, !.minute = 0, !.second = 0]
    IN cos_hour_angle(sky.call.latitude,
                      calculate_solar_declination(calculate_julian_day(noon_dt)))

Concrete(result) ==
    /\ Len(result.sunrise) = 1 /\ Len(result.sunset) = 1
    /\ "daylight_hours" \in DOMAIN result
    /\ ~result.polar_day /\ ~result.polar_night

PolarDay(result) ==
    /\ result.polar_day /\ ~result.polar_night
    /\ result.sunrise = <<>> /\ result.sunset = <<>>

PolarNight(result) ==
    /\ result.polar_night /\ ~result.polar_day
    /\ result.sunrise = <<>> /\ result.sunset = <<>>

\* C18: a result of calculate_sunrise_sunset is concrete, polar day or polar
\* night: none has missing times with both flags false, none has both flags.
C18_ThreeStates ==
    sky.call.op = "calculate_sunrise_sunset" =>
        \/ Concrete(sky.result)
        \/ PolarDay(sky.result)
        \/ PolarNight(sky.result)

\* the seconds from 00:00:00 of the date to a time on that date, the day
\* before or the day after
SecondsFromMidnight(dt, date) ==
    LET midnight == [date EXCEPT !.hour = 0, !.minute = 0, !.second = 0]
        at == [dt EXCEPT !.hour = 0, !.minute = 0, !.second = 0]
        days == CASE at = midnight -> 0
                  [] at = PlusOneDay(midnight) -> 1
                  [] at = MinusOneDay(midnight) -> -1
                  [] OTHER -> 2
    IN days * 86400 + dt.hour * 3600 + dt.minute * 60 + dt.second

\* a present time that is the decimal hour, to the second, on the day the hour
\* falls on
IsTimeAt(time, decimal_hour, date) ==
    /\ Len(time) = 1
    /\ time[1].hour \in 0..23 /\ time[1].minute \in 0..59 /\ time[1].second \in 0..59
    /\ LET seconds == SecondsFromMidnight(time[1], date)
           \* a unit of the decimal hour is 6/25 of a second
           lower == (decimal_hour * 6 - 24) \div 25
       IN lower <= seconds /\ seconds <= lower + 1

\* C19: outside polar day and polar night, sunrise is solar noon - hourAngle/15
\* and sunset is solar noon + hourAngle/15 with solar noon = 12 - longitude/15,
\* as date-times on the previous, the same or the next day, for every
\* longitude in [-180, 180].
C19_TimesAroundSolarNoon ==
    (/\ sky.call.op = "calculate_sunrise_sunset"
     /\ -Unit <= CosHourAngleOfCall /\ CosHourAngleOfCall <= Unit) =>
        LET hour_angle == Acos(CosHourAngleOfCall)
            solar_noon == 12 * HourUnit - sky.call.longitude
        IN /\ IsTimeAt(sky.result.sunrise, solar_noon - hour_angle, sky.call.date)
           /\ IsTimeAt(sky.result.sunset, solar_noon + hour_angle, sky.call.date)

\* C20: c < -1 gives polar day and c > 1 polar night, each without sunrise and
\* sunset; latitude 80 N is in polar day on the June solstice and in polar
\* night on the December solstice.
C20_PolarClassification ==
    sky.call.op = "calculate_sunrise_sunset" =>
        /\ CosHourAngleOfCall < -Unit => PolarDay(sky.result)
        /\ CosHourAngleOfCall > Unit => PolarNight(sky.result)
        /\ (sky.call.latitude = Deg(80) /\ sky.call.date.month = 6
              /\ sky.call.date.day = 21) => PolarDay(sky.result)
        /\ (sky.call.latitude = Deg(80) /\ sky.call.date.month = 12
              /\ sky.call.date.day = 21) => PolarNight(sky.result)

\* latitude 80 N on the December solstice, classified by c > 1
C20_Witness ==
    /\ sky.call.op = "calculate_sunrise_sunset"
    /\ sky.call.latitude = Deg(80)
    /\ sky.call.date = Datetime(2024, 12, 21, 12, 0, 0)
    /\ CosHourAngleOfCall > Unit
    /\ sky.result.polar_night

-----------------------------------------------------------------------------
(* C21 *)

\* C21: no astronomy operation fails for valid input: none raises, and none
\* ends in its except branch with a value that is not one of the documented
\* degenerate values (polar day, polar night, the terminator's edge cases).
C21_NoOperationFails ==
    /\ sky.call.op = "calculate_sun_position" => ~sky.result.raised
    /\ sky.call.op = "calculate_sunrise_sunset" => sky.result # SunriseSunsetFallback
    /\ sky.call.op = "get_solar_noon" => ~sky.result.raised

-----------------------------------------------------------------------------
(* C23 *)

\* C23: calculate_hour_angle returns h with -180 < h <= 180, congruent modulo
\* 360 to the Greenwich hour angle plus the longitude.
C23_HourAngleNormalised ==
    sky.call.op = "calculate_hour_angle" =>
        LET h == sky.result
            gha == greenwich_hour_angle(sky.call.julian_day)
        IN /\ Deg(-180) < h /\ h <= Deg(180)
           /\ (h - (gha + sky.call.longitude)) % Deg(360) = 0

\* the hour angle of half a turn: 173 degrees at Greenwich, longitude 7
C23_Witness ==
    /\ sky.call.op = "calculate_hour_angle"
    /\ sky.call.longitude = Deg(7)
    /\ sky.result = Deg(180)

-----------------------------------------------------------------------------
(* C22 *)

\* C22: a result of calculate_sun_position is the position calculated from the
\* latitude, longitude and timestamp of the call, and a result of
\* calculate_day_night_boundary is the curve calculated from the timestamp and
\* point count of the call, for that instant, whatever the cache holds.
C22_PureFunctionOfInputs ==
    /\ sky.call.op = "calculate_sun_position" =>
          \E ulp \in {0, 1} :
              sky.result = sun_position(sky.call.latitude, sky.call.longitude,
                                        sky.call.dt, ulp)
    /\ sky.call.op = "calculate_day_night_boundary" =>
          \E exact \in BOOLEAN :
              sky.result = day_night_boundary(sky.call.dt, sky.call.num_points, exact)

\* C22 amended: a result of calculate_sun_position is the position calculated
\* for the latitude and longitude of the call and a timestamp of the same
\* minute, and a result of calculate_day_night_boundary is the curve calculated
\* for the point count of the call and a timestamp of the same 10 minutes.
C22_PureUpToGranularity ==
    /\ sky.call.op = "calculate_sun_position" =>
          \E c \in MemoSunCalls, ulp \in {0, 1} :
              /\ c[1] = sky.call.latitude /\ c[2] = sky.call.longitude
              /\ [c[3] EXCEPT !.second = 0] = [sky.call.dt EXCEPT !.second = 0]
              /\ sky.result = sun_position(c[1], c[2], c[3], ulp)
    /\ sky.call.op = "calculate_day_night_boundary" =>
          \E c \in MemoBoundaryCalls, exact \in BOOLEAN :
              /\ c[2] = sky.call.num_points
              /\ [c[1] EXCEPT !.minute = (@ \div 10) * 10, !.second = 0]
                   = [sky.call.dt EXCEPT !.minute = (@ \div 10) * 10, !.second = 0]
              /\ sky.result = day_night_boundary(c[1], c[2], exact)

\* the position asked for 12:00:12 is the one calculated for 12:00:00
C22_Witness ==
    /\ sky.call.op = "calculate_sun_position"
    /\ sky.call.dt = Datetime(2024, 6, 21, 12, 0, 12)
    /\ sky.cached
    /\ sky.result.julian_day = calculate_julian_day(Datetime(2024, 6, 21, 12, 0, 0))

-----------------------------------------------------------------------------
(* C24 *)

\* what identifies the memoized result of an astronomy call: the category, and
\* latitude, longitude and minute, or 10-minute bucket and point count
MemoIdentity(call) ==
    IF call.op = "calculate_sun_position"
    THEN <<SunPosition, <<Str(call.latitude), Str(call.longitude),
                          Str([call.dt EXCEPT !.second = 0])>> >>
    ELSE <<DayNightBoundaryLabel,
           <<Str([call.dt EXCEPT !.minute = (@ \div 10) * 10, !.second = 0]),
             Str(call.num_points)>> >>

\* the unexpired entries of a store that were written for an identity
Memoized(store, identity) ==
    {k \in DOMAIN store :
        /\ store[k].call.cache_type = identity[1]
        /\ store[k].call.args = identity[2]
        /\ ~_is_expired(ttl_config, now, store[k].timestamp, identity[1])}

\* C24: a call whose identity has an unexpired entry is a hit, performs no set
\* and returns the stored result of the first call; any other call is a miss
\* that computes its result and stores it in a new entry.
C24_Step ==
    getCalls' = getCalls + 1 =>
        LET identity == MemoIdentity(sky'.call) IN
        IF Memoized(cache, identity) # {}
        THEN /\ stats'.hits = stats.hits + 1
             /\ stats'.sets = stats.sets
             /\ cache' = cache
             /\ \E k \in Memoized(cache, identity) : sky'.result = cache[k].data
        ELSE /\ stats'.misses = stats.misses + 1
             /\ stats'.sets = stats.sets + 1
             /\ \E k \in Memoized(cache', identity) :
                   /\ k \notin DOMAIN cache
                   /\ cache'[k].data = sky'.result

C24_MemoizedAtGranularity == [][C24_Step]_vars

-----------------------------------------------------------------------------
(* C25 *)

\* the synthetic point for |c| > 1
PolePolicy(declination) ==
    IF declination > 0 THEN Deg(90) - Abs(declination) ELSE Deg(-90) + Abs(declination)

\* the point for a division or domain error
ErrorPolicy(declination) ==
    IF Abs(declination) < Deg(45) THEN 0
    ELSE IF declination > 0 THEN Deg(90) ELSE Deg(-90)

\* C25: one point per sampled longitude, and with c = -tan(dec) / tan(H) its
\* latitude is arccos(|c|) with the sign of c for |c| <= 1, the pole policy for
\* |c| > 1, and the error policy where the division raises, which only a hour
\* angle of 0 can cause (as a float it is then 0.0, or a tiny angle with
\* |c| > 1).
C25_EdgeCasePolicy ==
    sky.call.op = "calculate_day_night_boundary" =>
        LET boundary == sky.result
            jd == calculate_julian_day(boundary.calculated_at)
            declination == calculate_solar_declination(jd)
        IN /\ Len(boundary.coordinates) = sky.call.num_points
           /\ \A k \in 1..Len(boundary.coordinates) :
                LET latitude == boundary.coordinates[k][2]
                    H == calculate_hour_angle(boundary.coordinates[k][1], jd)
                    c == Quot(-Tan(declination), Tan(H))
                    c_negative == (Tan(declination) > 0) = (Tan(H) > 0)
                IN IF H = 0
                   THEN latitude \in {ErrorPolicy(declination), PolePolicy(declination)}
                   ELSE IF Abs(c) <= Unit
                        THEN latitude = IF c_negative THEN -Acos(Abs(c))
                                        ELSE Acos(Abs(c))
                        ELSE latitude = PolePolicy(declination)

\* a computed curve of 360 points with a point of the error policy, one of the
\* pole policy and one in the southern hemisphere
C25_Witness ==
    /\ sky.call.op = "calculate_day_night_boundary"
    /\ ~sky.cached
    /\ sky.call.num_points = 360
    /\ sky.result.coordinates[8] = <<Deg(-173), 0>>
    /\ sky.result.coordinates[1][2] > Deg(66)
    /\ sky.result.coordinates[32][2] < 0

-----------------------------------------------------------------------------
(* C30 *)

\* C30: last_request_time never decreases, and a request that _make_request
\* sends after another one is stamped, and so sent, at least
\* min_request_interval after it.
C30_Step ==
    /\ api'.last_request_time >= api.last_request_time
    /\ (api.request_count > 0 /\ api'.request_count = api.request_count + 1) =>
          api'.last_request_time - api.last_request_time >= min_request_interval

C30_RequestsSpacedByInterval == [][C30_Step]_vars

\* a second request arrived at once and was delayed
C30_Witness ==
    /\ sky.call.op = "_make_request"
    /\ sky.sent
    /\ api.request_count = 2
    /\ now = sky.call.at + min_request_interval
    /\ api.last_request_time = time_time(now)

-----------------------------------------------------------------------------
(* C26 *)

\* the unexpired entries of the store that a weather request can be served from
HeldFor(store, cache_key) == Memoized(store, <<Weather, <<cache_key>> >>)

\* C26: the API is called only by a weather request that missed; a request
\* whose key holds an unexpired entry returns that entry and calls nothing; a
\* failed or empty response leaves no entry behind, so that the next request
\* for that key misses and calls the API again.
C26_Step ==
    /\ api' # api => getCalls' = getCalls + 1
    /\ getCalls' = getCalls + 1 =>
          LET cache_key == sky'.call.cache_key
              calls == api'.request_count - api.request_count
          IN IF HeldFor(cache, cache_key) # {}
             THEN /\ calls = 0
                  /\ \E k \in HeldFor(cache, cache_key) : sky'.result = cache[k].data
             ELSE /\ calls = 1
                  /\ sky'.response # "200" =>
                        \A k \in DOMAIN cache' :
                            cache'[k].call.args # <<cache_key>>

C26_APIOnlyAfterMiss == [][C26_Step]_vars

\* a request failed and stored nothing; a later request missed, called the API
\* again and stored its object
C26_Witness ==
    /\ sky.call.op = "get_weather"
    /\ sky.response = "200"
    /\ ~sky.cached
    /\ api.request_count = 2
    /\ api.error_count = 1
    /\ stats.misses = 2
    /\ stats.sets = 1

-----------------------------------------------------------------------------
(* C27: the store holds at most CACHE_SIZE_LIMIT items *)

\* C27: in every state the number of items held by the store is at most
\* CACHE_SIZE_LIMIT, whatever the sequence of set calls
C27_SizeWithinLimit == Cardinality(DOMAIN cache) <= CACHE_SIZE_LIMIT

-----------------------------------------------------------------------------
(* C28: the counters bound the number of entries *)

\* C28: in every state reached by get, set, delete, clear_by_type, clear_all
\* and cleanup_expired the four counters are non-negative and the number of
\* entries reported by get_stats is at most the sets minus the evictions
\* counted since the last clear_all
C28_CountersBoundEntries ==
    /\ \A counter \in DOMAIN stats : stats[counter] >= 0
    /\ get_stats.total_entries <= get_stats.cache_sets - get_stats.evictions

\* two sets were counted, cleanup_expired has just evicted one of the two
\* entries and the other is still held
C28_Witness ==
    /\ last.op = "cleanup_expired" /\ last.retcount = 1
    /\ stats.sets = 2 /\ stats.evictions = 1
    /\ get_stats.total_entries = 1

-----------------------------------------------------------------------------
(* C29: the category recovered from the stored key *)

\* the category cleanup_expired and get_size_info read from a stored key
RecoveredCategory(key) == SplitFirst(key)

\* get, which is given the label, and cleanup_expired, which recovers it from
\* the key, judge the entry alike
ExpiryAgreed(store, config, time, key) ==
    _is_expired(config, time, store[key].timestamp, RecoveredCategory(key))
        <=> _is_expired(config, time, store[key].timestamp, SetUnder(store, key))

\* C29: for every entry of the store, the category recovered from its key by
\* cleanup_expired and get_size_info (the part before the first ':') and by
\* clear_by_type (the labels whose prefix the key starts with) is the label the
\* entry was set under, and get and cleanup_expired agree on whether the entry
\* is expired
C29_CategoryRecoveredFromKey ==
    \A key \in DOMAIN cache :
        /\ RecoveredCategory(key) = SetUnder(cache, key)
        /\ \A c \in Categories :
              StartsWith(key, c \o <<":">>) <=> c = SetUnder(cache, key)
        /\ ExpiryAgreed(cache, ttl_config, now, key)

====
